---- MODULE Spec2Model ----
(***************************************************************************)
(* Range-partitioned parallel prime computation (peiking88/starter).       *)
(*                                                                         *)
(* The repository holds several programs that share one pattern: a task    *)
(* source hands out sub-ranges, workers compute the primes of a sub-range  *)
(* and deposit a TaskResult, the main routine joins the workers and writes *)
(* the results.  One state machine models the programs; the variable       *)
(* `variant` says which program a behaviour is a run of.                   *)
(*                                                                         *)
(*   glm5_libfork     src/glm5_libfork_prime.cpp     atomic counter        *)
(*   minimax_prime    src/minimax_prime.cpp          mutex-guarded counter *)
(*   minimax_seastar  src/minimax_seastar_prime.cpp  atomic counter        *)
(*   glm5_seastar     src/glm5_seastar_prime.cpp     queue owned by core 0 *)
(*   pony_alpha       src/pony_alpha.cpp             queue owned by core 0,*)
(*                                                   lines written at once *)
(***************************************************************************)
EXTENDS Integers, Sequences, FiniteSets, TLC

VARIABLES
    variant,            \* which program runs
    num_tasks,          \* g_config.num_tasks / g_num_tasks / total_tasks_
    chunk_size,         \* g_config.chunk_size / g_chunk_size
    num_workers,        \* num_threads / g_num_cores / smp::count
    total_tasks,        \* TaskQueue::total_tasks_ / g_total_tasks / GlobalState::total_tasks
    next_task_id,       \* TaskQueue::next_task_id_ / g_next_task_id
    task_queue,         \* GlobalState::task_queue (queue variants)
    pc,                 \* per worker: where its loop stands
    cur,                \* per worker: the task it holds (or NoTask)
    primes,             \* per worker: the local vector `primes`
    completed,          \* per worker: the local `completed` it read
    g_results,          \* g_results / GlobalState::results
    g_completed_tasks,  \* g_completed_tasks / GlobalState::completed_tasks
    g_total_primes,     \* g_total_primes / GlobalState::total_primes
    progress_log,       \* the progress lines printed, in order
    handed,             \* history: task ids returned as a task, in order
    mainpc,             \* the main routine: "run", "output", "done", "aborted"
    spawned,            \* number of workers started so far
    collected,          \* history: the result list as the output step found it
    written,            \* the records written to the output file, in order
    io_failed,          \* the output destination could not be opened
    current,            \* per worker: compute_primes_in_range's next candidate
    since_yield,        \* per worker: candidates tested since it last yielded
    args,               \* the configuration as given on the command line
    shard,              \* per shard: the locals of count_primes_on_shard
    calls,              \* the fork-join call tree of a libfork computation
    totals,             \* the benchmark's totals, by implementation
    alive,              \* prime_calculator: the TaskQueueManager and the ResultCollector exist
    monitor,            \* prime_calculator: where progress_monitor is
    stale               \* prime_calculator: who has used an object after its destruction

vars == <<variant, num_tasks, chunk_size, num_workers, total_tasks, next_task_id, task_queue,
          pc, cur, primes, completed, g_results, g_completed_tasks,
          g_total_primes, progress_log, handed, mainpc, spawned, collected,
          written, io_failed, current, since_yield, args, shard, calls, totals,
          alive, monitor, stale>>

\* The state of a range computation in progress.
rcvars == <<current, since_yield>>

\* The state of the benchmark programs (prime_bench, prime_bench_lf, test_simple).
benchvars == <<shard, calls, totals>>
calcvars == <<alive, monitor, stale>>

-----------------------------------------------------------------------------
(* Bounds of the model.                                                    *)

MaxTasks == 3
MaxChunk == 3
MaxWorkers == 2

-----------------------------------------------------------------------------
(* Unsigned 64-bit arithmetic, scaled: uint64_t wraps at Modulus.          *)

Modulus == 2 ^ 20

Wrap(x) == ((x % Modulus) + Modulus) % Modulus

\* The largest element count a vector<uint64_t> can allocate: a request
\* above it throws (std::length_error / std::bad_alloc).  Scaled with
\* Modulus: far below the wrapped difference of an inverted range.
MaxAlloc == Modulus \div 32

NoTask == [task_id |-> -1, start |-> 0, end |-> 0]

-----------------------------------------------------------------------------
(* Pure functions.                                                         *)

\* static_cast<uint64_t>(std::sqrt(static_cast<double>(n))), exact on the
\* modelled domain.
ISqrt(n) == CHOOSE r \in 0..n : r * r <= n /\ (r + 1) * (r + 1) > n

RECURSIVE TrialLoop_OnlyMinusOne(_, _, _)
\* Mutant: only the divisors 6k-1 are tried, the test of i + 2 is missing.
TrialLoop_OnlyMinusOne(n, i, sqrt_n) ==
    IF i > sqrt_n THEN TRUE
    ELSE IF n % i = 0 THEN FALSE
    ELSE TrialLoop_OnlyMinusOne(n, i + 6, sqrt_n)

RECURSIVE TrialLoop(_, _, _)
\* for (i = 5; i <= sqrt_n; i += 6) if (n % i == 0 || n % (i+2) == 0) return false;
TrialLoop(n, i, sqrt_n) ==
    IF i > sqrt_n THEN TRUE
    ELSE IF n % i = 0 \/ n % (i + 2) = 0 THEN FALSE
    ELSE TrialLoop(n, i + 6, sqrt_n)

\* Mutant: the test of divisibility by 3 is missing.
isPrime_NoThree(n) ==
    IF n < 2 THEN FALSE
    ELSE IF n = 2 \/ n = 3 THEN TRUE
    ELSE IF n % 2 = 0 THEN FALSE
    ELSE TrialLoop(n, 5, ISqrt(n))

isPrime(n) ==
    IF n < 2 THEN FALSE
    ELSE IF n = 2 \/ n = 3 THEN TRUE
    ELSE IF n % 2 = 0 \/ n % 3 = 0 THEN FALSE
    ELSE TrialLoop(n, 5, ISqrt(n))

RECURSIVE OptimizedLoop(_, _)
\* for (i = 5; i * i <= n; i += 6) if (n % i == 0 || n % (i+2) == 0) return false;
OptimizedLoop(n, i) ==
    IF Wrap(i * i) > n THEN TRUE
    ELSE IF n % i = 0 \/ n % Wrap(i + 2) = 0 THEN FALSE
    ELSE OptimizedLoop(n, Wrap(i + 6))

\* prime_calculator's is_prime_optimized.
is_prime_optimized(n) ==
    IF n <= 1 THEN FALSE
    ELSE IF n <= 3 THEN TRUE
    ELSE IF n % 2 = 0 \/ n % 3 = 0 THEN FALSE
    ELSE OptimizedLoop(n, 5)

\* The candidates n, n + 1, .., end in the order the loop visits them.
Candidates(n, end) == [i \in 1 .. (end - n + 1) |-> n + i - 1]

\* Mutant: the loop test is n < end, the last candidate is never tested.
PrimesLoop_ExclusiveEnd(n, end, acc) ==
    acc \o SelectSeq(Candidates(n, end - 1), isPrime)

\* for (n = start; n <= end; ++n) if (isPrime(n)) primes.push_back(n);
\* the candidates that pass isPrime are appended to acc in the order visited.
PrimesLoop(n, end, acc) ==
    acc \o SelectSeq(Candidates(n, end), isPrime)

computePrimesInRange(start, end) == PrimesLoop(start, end, <<>>)

RECURSIVE SieveLoop(_, _, _)
\* segmented_sieve, the branch taken when end - start <= TASK_CHUNK_SIZE:
\* for (n = start; n <= end; ++n) if (is_prime_optimized(n)) primes.push_back(n);
SieveLoop(n, end, acc) ==
    IF n > end THEN acc
    ELSE SieveLoop(n + 1, end, IF is_prime_optimized(n) THEN Append(acc, n) ELSE acc)

\* prime_calculator's TASK_CHUNK_SIZE (100000 in the source), scaled with
\* the ranges of the model.
TASK_CHUNK_SIZE == 3

RECURSIVE SmallSieve(_, _, _, _)
\* The sieve of Eratosthenes over 2 .. limit:
\* for (i = 2; i <= limit; ++i) if (is_prime_small[i]) {
\*   small_primes.push_back(i);
\*   for (j = i * i; j <= limit; j += i) is_prime_small[j] = false; }
SmallSieve(i, limit, is_prime_small, small_primes) ==
    IF i > limit THEN small_primes
    ELSE IF is_prime_small[i]
         THEN SmallSieve(i + 1, limit,
                  [j \in DOMAIN is_prime_small |->
                      IF j >= i * i /\ (j - i * i) % i = 0 THEN FALSE
                      ELSE is_prime_small[j]],
                  Append(small_primes, i))
         ELSE SmallSieve(i + 1, limit, is_prime_small, small_primes)

\* Mutant: the striking starts at the first multiple of prime not below
\* low, prime itself included.
LoLim_FirstMultiple(prime, low) == ((low + prime - 1) \div prime) * prime

\* lo_lim = std::max(prime * prime, (low + prime - 1) / prime * prime)
LoLim(prime, low) ==
    IF prime * prime > ((low + prime - 1) \div prime) * prime
    THEN prime * prime
    ELSE ((low + prime - 1) \div prime) * prime

RECURSIVE StrikeSegment(_, _, _, _, _)
\* for (prime : small_primes) for (j = lo_lim; j <= high; j += prime)
\*   if (j >= low) segment[j - low] = false;
\* k is the index of the next small prime, segment is indexed 0 .. high - low.
StrikeSegment(k, small_primes, low, high, segment) ==
    IF k > Len(small_primes) THEN segment
    ELSE LET prime == small_primes[k]
             lo_lim == LoLim(prime, low)
         IN  StrikeSegment(k + 1, small_primes, low, high,
                 [i \in DOMAIN segment |->
                     IF low + i >= lo_lim /\ (low + i - lo_lim) % prime = 0
                     THEN FALSE ELSE segment[i]])

\* The segment low .. high after the striking.
StruckSegment(low, high, small_primes) ==
    StrikeSegment(1, small_primes, low, high, [i \in 0 .. (high - low) |-> TRUE])

\* The survivors of a segment: for (i = 0; i < segment.size(); ++i)
\*   if (segment[i]) { n = low + i; if (n >= 2 && is_prime_optimized(n)) push_back(n); }
CollectSegment(low, high, segment, acc) ==
    LET Survives(n) == segment[n - low] /\ n >= 2 /\ is_prime_optimized(n)
    IN  acc \o SelectSeq(Candidates(low, high), Survives)

RECURSIVE SegmentLoop(_, _, _, _, _)
\* for (low = start; low <= end; low += segment_size) {
\*   high = std::min(low + segment_size - 1, end); strike; collect }
SegmentLoop(low, end, segment_size, small_primes, acc) ==
    IF low > end THEN acc
    ELSE LET high == IF low + segment_size - 1 < end
                     THEN low + segment_size - 1 ELSE end
         IN  SegmentLoop(low + segment_size, end, segment_size, small_primes,
                 CollectSegment(low, high,
                     StruckSegment(low, high, small_primes), acc))

\* The small primes of the sieve path: limit = (uint64_t)sqrt(end) + 1.
SmallPrimes(end) ==
    LET limit == ISqrt(end) + 1
    IN  SmallSieve(2, limit, [i \in 0 .. limit |-> TRUE], <<>>)

\* The sieve path of segmented_sieve:
\* segment_size = std::min(TASK_CHUNK_SIZE, end - start + 1).
SievePath(start, end) ==
    LET segment_size == IF TASK_CHUNK_SIZE < Wrap(end - start + 1)
                        THEN TASK_CHUNK_SIZE ELSE Wrap(end - start + 1)
    IN  SegmentLoop(start, end, segment_size, SmallPrimes(end), <<>>)

\* segmented_sieve(start, end): trial division for a range of at most
\* TASK_CHUNK_SIZE, the sieve over segments otherwise.
segmented_sieve(start, end) ==
    IF Wrap(end - start) <= TASK_CHUNK_SIZE
    THEN SieveLoop(start, end, <<>>)
    ELSE SievePath(start, end)

\* glm5_seastar's BATCH_SIZE (1000 in the source), scaled with the ranges
\* of the model.
BATCH_SIZE == 3

\* The argument of primes.reserve(...) in computePrimesInRange.
ReserveArg(start, end) ==
    CASE variant = "glm5_libfork" -> Wrap(end - start) \div 20
      [] variant \in {"minimax_prime", "minimax_seastar"} -> Wrap(end - start) \div 10
      [] OTHER -> IF Wrap(end - start) > 10000 THEN 10000 ELSE Wrap(end - start)

\* reserve throws when the request cannot be allocated.
ReserveThrows(start, end) == ReserveArg(start, end) > MaxAlloc

\* Mutant: the ranges are contiguous, task_id * chunk_size + 1 is the start.
TaskStart_Contiguous(task_id) == Wrap(task_id * chunk_size + 1)

\* start = task_id * chunk_size + 2
TaskStart(task_id) == Wrap(task_id * chunk_size + 2)

\* end = (task_id + 1) * chunk_size
TaskEnd(task_id) == Wrap((task_id + 1) * chunk_size)

MakeTask(task_id) ==
    [task_id |-> task_id, start |-> TaskStart(task_id), end |-> TaskEnd(task_id)]

-----------------------------------------------------------------------------
(* Task generation of the queue variants.                                  *)

RECURSIVE QueueLoopById(_, _, _)
\* glm5_seastar init_task_queue:
\* for (task_id = 0; task_id < num_tasks; ++task_id) push({id*chunk+2, (id+1)*chunk})
QueueLoopById(task_id, n, acc) ==
    IF task_id >= n THEN acc
    ELSE QueueLoopById(task_id + 1, n,
             Append(acc, [start |-> Wrap(task_id * chunk_size + 2),
                          end |-> Wrap((task_id + 1) * chunk_size)]))

RECURSIVE QueueLoopByStep(_, _, _, _)
\* pony_alpha init_task_queue:
\* for (start = 2; start <= max_num; start += chunk) push({start, min(start+chunk-1, max_num)})
QueueLoopByStep(start, max_num, chunk, acc) ==
    IF start > max_num THEN acc
    ELSE QueueLoopByStep(start + chunk, max_num, chunk,
             Append(acc, [start |-> start,
                          end |-> IF start + chunk - 1 < max_num
                                  THEN start + chunk - 1 ELSE max_num]))

init_task_queue(v, max_num, chunk) ==
    IF v = "glm5_seastar"
    THEN QueueLoopById(0, max_num \div chunk, <<>>)
    ELSE QueueLoopByStep(2, max_num, chunk, <<>>)

-----------------------------------------------------------------------------
(* Variants.                                                               *)

CounterVariants == {"glm5_libfork", "minimax_seastar"}
LockedVariants == {"minimax_prime"}
QueueVariants == {"glm5_seastar", "pony_alpha"}
MemoryVariants == {"glm5_libfork", "minimax_prime", "minimax_seastar", "glm5_seastar"}
StreamVariants == {"pony_alpha"}

Workers == 0 .. (num_workers - 1)

\* The reporting sub-steps of a worker (state Reporting of the worker machine).
ReportingPcs == {"Push", "IncCompleted", "IncPrimes", "LoadCompleted",
                 "CheckPeriod", "CheckFinal", "Print", "Collect", "Write"}

\* completed % K == 0 || completed == num_tasks, K the variant's period.
ProgressPeriod ==
    CASE variant = "glm5_libfork" -> 20
      [] variant \in {"minimax_prime", "minimax_seastar"} -> 10
      [] variant = "glm5_seastar" -> 100
      [] OTHER -> 1000

\* The total the progress test compares with: g_config.num_tasks /
\* g_num_tasks, or state.total_tasks in the queue variants.
ProgressTotal == IF variant \in QueueVariants THEN total_tasks ELSE num_tasks

ProgressDue(c) == c % ProgressPeriod = 0 \/ c = ProgressTotal

\* Mutant: the primes are kept in one buffer the workers share (that of
\* worker 0) instead of the worker's local vector.
MakeResult_SharedBuffer(w) ==
    IF variant \in QueueVariants
    THEN [start |-> cur[w].start, end |-> cur[w].end, core_id |-> w,
          primes |-> primes[0]]
    ELSE [task_id |-> cur[w].task_id, start |-> cur[w].start,
          end |-> cur[w].end, core_id |-> w, primes |-> primes[0]]

\* The TaskResult a worker builds from its task and its local primes.
MakeResult(w) ==
    IF variant \in QueueVariants
    THEN [start |-> cur[w].start, end |-> cur[w].end, core_id |-> w,
          primes |-> primes[w]]
    ELSE [task_id |-> cur[w].task_id, start |-> cur[w].start,
          end |-> cur[w].end, core_id |-> w, primes |-> primes[w]]

\* One line of the CSV file: "<start>-<end>,<core_id>[,<prime>]*".
Line(r) == [start |-> r.start, end |-> r.end, core_id |-> r.core_id,
            primes |-> r.primes]

-----------------------------------------------------------------------------
(* Initial states: the state after argument validation and initTaskQueue.  *)

\* The state main has built when the workers are about to be started, for
\* a given num_tasks, chunk_size and num_workers.
InitRun ==
    /\ next_task_id = 0
    /\ task_queue = IF variant \in QueueVariants
                    THEN init_task_queue(variant, num_tasks * chunk_size, chunk_size)
                    ELSE <<>>
    /\ total_tasks = IF variant \in QueueVariants THEN Len(task_queue) ELSE num_tasks
    /\ pc = [w \in Workers |-> "Idle"]
    /\ cur = [w \in Workers |-> NoTask]
    /\ primes = [w \in Workers |-> <<>>]
    /\ completed = [w \in Workers |-> 0]
    /\ g_results = <<>>
    /\ g_completed_tasks = 0
    /\ g_total_primes = 0
    /\ progress_log = <<>>
    /\ handed = <<>>
    /\ mainpc = "run"
    /\ spawned = 0
    /\ collected = <<>>
    /\ written = <<>>
    /\ current = [w \in Workers |-> 0]
    /\ since_yield = [w \in Workers |-> 0]
    /\ args = [tasks |-> num_tasks, chunk |-> chunk_size, threads |-> num_workers]
    /\ shard = <<>>
    /\ calls = <<>>
    /\ totals = <<>>
    /\ alive = TRUE
    /\ monitor = "Unstarted"
    /\ stale = {}

InitCommon ==
    /\ chunk_size \in 1 .. MaxChunk
    /\ num_workers \in 1 .. MaxWorkers
    /\ InitRun

\* minimax_seastar takes --tasks unvalidated (0 is accepted); the others
\* replace a non-positive task count by the default.
Init ==
    /\ variant \in MemoryVariants
    /\ num_tasks \in (IF variant = "minimax_seastar" THEN 0 .. MaxTasks ELSE 1 .. MaxTasks)
    /\ io_failed = FALSE
    /\ InitCommon

-----------------------------------------------------------------------------
(* The task source.                                                        *)

Running == mainpc = "run"

\* The process lives until main returns or the run is aborted.
Alive == mainpc \in {"run", "output"}

\* Mutant: the test lets the id total_tasks through (off by one).
Exhausted_OffByOne(task_id) == task_id > total_tasks

\* Mutant: only the id total_tasks itself is refused; a later call is
\* given a task again.
Exhausted_Unstable(task_id) == task_id = total_tasks

\* if (task_id >= total_tasks_) return std::nullopt;
Exhausted(task_id) == task_id >= total_tasks

\* Mutant: the increment is lost (a load and a store that another worker's
\* store overwrites).
FetchAdd_Lost(counter) == counter

\* next_task_id_.fetch_add(1): the value the counter holds afterwards.
FetchAdd(counter) == counter + 1

\* Mutant: Exhausted is not terminal, the worker goes back to its start.
Finish_Retry(w) ==
    /\ pc' = [pc EXCEPT ![w] = "Idle"]
    /\ UNCHANGED <<cur, handed>>

\* The worker's loop ends: co_return / stop_iteration::yes.
Finish(w) ==
    /\ pc' = [pc EXCEPT ![w] = "Done"]
    /\ UNCHANGED <<cur, handed>>

\* The worker holds task t and goes on to compute it.
Take(w, t) ==
    /\ pc' = [pc EXCEPT ![w] = "Computing"]
    /\ cur' = [cur EXCEPT ![w] = t]
    /\ handed' = Append(handed, t)

\* glm5_libfork TaskQueue::getNextTask, minimax_seastar workerCoreLoop:
\* one atomic fetch_add, then the test of the value fetched.
GetNextTaskAtomic(w) ==
    /\ Alive
    /\ variant \in CounterVariants
    /\ pc[w] = "Fetching"
    /\ next_task_id' = FetchAdd(next_task_id)
    /\ IF Exhausted(next_task_id) THEN Finish(w) ELSE Take(w, MakeTask(next_task_id))
    /\ UNCHANGED <<rcvars, args, benchvars, calcvars>>
    /\ UNCHANGED <<variant, num_tasks, chunk_size, num_workers, total_tasks,
                   task_queue, primes, completed, g_results, g_completed_tasks,
                   g_total_primes, progress_log, mainpc, spawned, collected, written,
                   io_failed>>

\* minimax_prime TaskQueue::getNextTask: test and post-increment under mutex_.
GetNextTaskLocked(w) ==
    /\ Alive
    /\ variant \in LockedVariants
    /\ pc[w] = "Fetching"
    /\ IF Exhausted(next_task_id)
       THEN Finish(w) /\ UNCHANGED next_task_id
       ELSE Take(w, MakeTask(next_task_id)) /\ next_task_id' = FetchAdd(next_task_id)
    /\ UNCHANGED <<rcvars, args, benchvars, calcvars>>
    /\ UNCHANGED <<variant, num_tasks, chunk_size, num_workers, total_tasks,
                   task_queue, primes, completed, g_results, g_completed_tasks,
                   g_total_primes, progress_log, mainpc, spawned, collected, written,
                   io_failed>>

\* pony_alpha computes on the reactor of its core: while worker 0 computes,
\* core 0 runs nothing else.  The other variants compute in seastar::async.
Core0Free == variant = "pony_alpha" => pc[0] # "Computing"

\* Mutant: the task at the front is returned but not popped.
GetNextTaskQueue_NoPop(w) ==
    /\ Alive
    /\ variant \in QueueVariants
    /\ pc[w] = "Fetching"
    /\ Core0Free
    /\ IF task_queue = <<>>
       THEN Finish(w) /\ UNCHANGED task_queue
       ELSE Take(w, Head(task_queue)) /\ UNCHANGED task_queue
    /\ UNCHANGED <<rcvars, args, benchvars, calcvars>>
    /\ UNCHANGED <<variant, num_tasks, chunk_size, num_workers, total_tasks,
                   next_task_id, primes, completed, g_results, g_completed_tasks,
                   g_total_primes, progress_log, mainpc, spawned, collected, written,
                   io_failed>>

\* glm5_seastar / pony_alpha get_next_task, run on core 0 by submit_to(0).
GetNextTaskQueue(w) ==
    /\ Alive
    /\ variant \in QueueVariants
    /\ pc[w] = "Fetching"
    /\ Core0Free
    /\ IF task_queue = <<>>
       THEN Finish(w) /\ UNCHANGED task_queue
       ELSE Take(w, Head(task_queue)) /\ task_queue' = Tail(task_queue)
    /\ UNCHANGED <<rcvars, args, benchvars, calcvars>>
    /\ UNCHANGED <<variant, num_tasks, chunk_size, num_workers, total_tasks,
                   next_task_id, primes, completed, g_results, g_completed_tasks,
                   g_total_primes, progress_log, mainpc, spawned, collected, written,
                   io_failed>>

-----------------------------------------------------------------------------
(* The worker: compute and report.                                         *)

\* Mutant: the worker fetches the next task without reporting the result.
AfterCompute_NoReport == "Fetching"

\* Where a worker goes once its primes are computed.
AfterCompute ==
    CASE variant \in {"glm5_libfork", "minimax_prime"} -> "Push"
      [] variant = "minimax_seastar" -> "IncCompleted"
      [] variant = "glm5_seastar" -> "Collect"
      [] OTHER -> "Write"

\* computePrimesInRange(task.start, task.end); the reserve may throw.
Compute(w) ==
    /\ Alive
    /\ pc[w] = "Computing"
    /\ IF ReserveThrows(cur[w].start, cur[w].end)
       THEN /\ pc' = [pc EXCEPT ![w] = "Faulted"]
            /\ UNCHANGED primes
       ELSE /\ pc' = [pc EXCEPT ![w] = AfterCompute]
            /\ primes' = [primes EXCEPT ![w] =
                             computePrimesInRange(cur[w].start, cur[w].end)]
    /\ UNCHANGED <<rcvars, args, benchvars, calcvars>>
    /\ UNCHANGED <<variant, num_tasks, chunk_size, num_workers, total_tasks,
                   next_task_id, task_queue, cur, completed, g_results,
                   g_completed_tasks, g_total_primes, progress_log, handed,
                   mainpc, spawned, collected, written, io_failed>>

\* The iteration is over: the locals go out of scope, the loop fetches again.
NextIteration(w) ==
    /\ pc' = [pc EXCEPT ![w] = "Fetching"]
    /\ cur' = [cur EXCEPT ![w] = NoTask]
    /\ primes' = [primes EXCEPT ![w] = <<>>]
    /\ completed' = [completed EXCEPT ![w] = 0]

\* Mutant: an unlocked push_back that writes the slot another worker's
\* push_back has just filled.
PushBack_Overwrite(results, r) ==
    IF results = <<>> THEN <<r>> ELSE [results EXCEPT ![Len(results)] = r]

\* g_results.push_back(std::move(result)) under g_results_mutex.
PushBack(results, r) == Append(results, r)

\* The locked block that appends the TaskResult.  glm5_libfork and
\* minimax_prime append first; minimax_seastar appends last.
Push(w) ==
    /\ Alive
    /\ pc[w] = "Push"
    /\ g_results' = PushBack(g_results, MakeResult(w))
    /\ IF variant = "minimax_seastar"
       THEN NextIteration(w)
       ELSE /\ pc' = [pc EXCEPT ![w] = "IncCompleted"]
            /\ UNCHANGED <<cur, primes, completed>>
    /\ UNCHANGED <<rcvars, args, benchvars, calcvars>>
    /\ UNCHANGED <<variant, num_tasks, chunk_size, num_workers, total_tasks,
                   next_task_id, task_queue, g_completed_tasks, g_total_primes,
                   progress_log, handed, mainpc, spawned, collected, written, io_failed>>

\* g_completed_tasks.fetch_add(1); minimax_seastar keeps fetch_add(1) + 1.
IncCompleted(w) ==
    /\ Alive
    /\ pc[w] = "IncCompleted"
    /\ g_completed_tasks' = g_completed_tasks + 1
    /\ completed' = [completed EXCEPT ![w] =
                        IF variant = "minimax_seastar"
                        THEN g_completed_tasks + 1 ELSE @]
    /\ pc' = [pc EXCEPT ![w] = "IncPrimes"]
    /\ UNCHANGED <<rcvars, args, benchvars, calcvars>>
    /\ UNCHANGED <<variant, num_tasks, chunk_size, num_workers, total_tasks,
                   next_task_id, task_queue, cur, primes, g_results,
                   g_total_primes, progress_log, handed, mainpc, spawned,
                   collected, written, io_failed>>

\* Mutant: the total is stored, not added to (g_total_primes = count).
IncPrimes_Store(w) ==
    /\ Alive
    /\ pc[w] = "IncPrimes"
    /\ g_total_primes' = Len(primes[w])
    /\ pc' = [pc EXCEPT ![w] =
                 CASE variant = "glm5_libfork" -> "LoadCompleted"
                   [] variant = "minimax_prime" -> "CheckPeriod"
                   [] OTHER -> IF ProgressDue(completed[w]) THEN "Print" ELSE "Push"]
    /\ UNCHANGED <<rcvars, args, benchvars, calcvars>>
    /\ UNCHANGED <<variant, num_tasks, chunk_size, num_workers, total_tasks,
                   next_task_id, task_queue, cur, primes, completed, g_results,
                   g_completed_tasks, progress_log, handed, mainpc, spawned,
                   collected, written, io_failed>>

\* g_total_primes.fetch_add(count)
IncPrimes(w) ==
    /\ Alive
    /\ pc[w] = "IncPrimes"
    /\ g_total_primes' = g_total_primes + Len(primes[w])
    /\ pc' = [pc EXCEPT ![w] =
                 CASE variant = "glm5_libfork" -> "LoadCompleted"
                   [] variant = "minimax_prime" -> "CheckPeriod"
                   [] OTHER -> IF ProgressDue(completed[w]) THEN "Print" ELSE "Push"]
    /\ UNCHANGED <<rcvars, args, benchvars, calcvars>>
    /\ UNCHANGED <<variant, num_tasks, chunk_size, num_workers, total_tasks,
                   next_task_id, task_queue, cur, primes, completed, g_results,
                   g_completed_tasks, progress_log, handed, mainpc, spawned,
                   collected, written, io_failed>>

\* glm5_libfork: int completed = g_completed_tasks.load(); then the test.
LoadCompleted(w) ==
    /\ Alive
    /\ pc[w] = "LoadCompleted"
    /\ IF ProgressDue(g_completed_tasks)
       THEN /\ pc' = [pc EXCEPT ![w] = "Print"]
            /\ completed' = [completed EXCEPT ![w] = g_completed_tasks]
            /\ UNCHANGED <<cur, primes>>
       ELSE NextIteration(w)
    /\ UNCHANGED <<rcvars, args, benchvars, calcvars>>
    /\ UNCHANGED <<variant, num_tasks, chunk_size, num_workers, total_tasks,
                   next_task_id, task_queue, g_results, g_completed_tasks,
                   g_total_primes, progress_log, handed, mainpc, spawned,
                   collected, written, io_failed>>

\* minimax_prime: the first operand, g_completed_tasks % 10 == 0 (one load).
CheckPeriod(w) ==
    /\ Alive
    /\ pc[w] = "CheckPeriod"
    /\ pc' = [pc EXCEPT ![w] =
                 IF g_completed_tasks % ProgressPeriod = 0 THEN "Print" ELSE "CheckFinal"]
    /\ UNCHANGED <<rcvars, args, benchvars, calcvars>>
    /\ UNCHANGED <<variant, num_tasks, chunk_size, num_workers, total_tasks,
                   next_task_id, task_queue, cur, primes, completed, g_results,
                   g_completed_tasks, g_total_primes, progress_log, handed,
                   mainpc, spawned, collected, written, io_failed>>

\* minimax_prime: the second operand, g_completed_tasks == g_num_tasks (one load).
CheckFinal(w) ==
    /\ Alive
    /\ pc[w] = "CheckFinal"
    /\ IF g_completed_tasks = ProgressTotal
       THEN /\ pc' = [pc EXCEPT ![w] = "Print"]
            /\ UNCHANGED <<cur, primes, completed>>
       ELSE NextIteration(w)
    /\ UNCHANGED <<rcvars, args, benchvars, calcvars>>
    /\ UNCHANGED <<variant, num_tasks, chunk_size, num_workers, total_tasks,
                   next_task_id, task_queue, g_results, g_completed_tasks,
                   g_total_primes, progress_log, handed, mainpc, spawned,
                   collected, written, io_failed>>

\* The progress line: the completed count it shows and g_total_primes.load().
\* minimax_prime loads g_completed_tasks again when it prints.
ProgressLine(w) ==
    [completed |-> IF variant = "minimax_prime" THEN g_completed_tasks
                   ELSE completed[w],
     primes |-> g_total_primes]

PrintProgress(w) ==
    /\ Alive
    /\ pc[w] = "Print"
    /\ progress_log' = Append(progress_log, ProgressLine(w))
    /\ IF variant = "minimax_seastar"
       THEN /\ pc' = [pc EXCEPT ![w] = "Push"]
            /\ UNCHANGED <<cur, primes, completed>>
       ELSE NextIteration(w)
    /\ UNCHANGED <<rcvars, args, benchvars, calcvars>>
    /\ UNCHANGED <<variant, num_tasks, chunk_size, num_workers, total_tasks,
                   next_task_id, task_queue, g_results, g_completed_tasks,
                   g_total_primes, handed, mainpc, spawned, collected, written, io_failed>>

\* glm5_seastar collect_result, run on core 0 by submit_to(0): append, count,
\* add the primes, print the progress when due.
Collect(w) ==
    /\ Alive
    /\ pc[w] = "Collect"
    /\ g_results' = PushBack(g_results, MakeResult(w))
    /\ g_completed_tasks' = g_completed_tasks + 1
    /\ g_total_primes' = g_total_primes + Len(primes[w])
    /\ progress_log' =
          IF ProgressDue(g_completed_tasks + 1)
          THEN Append(progress_log,
                      [completed |-> g_completed_tasks + 1,
                       primes |-> g_total_primes + Len(primes[w])])
          ELSE progress_log
    /\ NextIteration(w)
    /\ UNCHANGED <<rcvars, args, benchvars, calcvars>>
    /\ UNCHANGED <<variant, num_tasks, chunk_size, num_workers, total_tasks,
                   next_task_id, task_queue, handed, mainpc, spawned, collected, written,
                   io_failed>>

-----------------------------------------------------------------------------
(* The main routine: start the workers, join them, write the results.      *)

\* Mutant: every fork passes the same id, that of the first worker forked.
SpawnTarget_SameId(k) == IF variant = "glm5_libfork" THEN num_workers - 1 ELSE 0

\* The k-th worker started.  glm5_libfork parallelCompute forks worker
\* remaining_workers - 1 and recurses (the last one, worker 0, is called);
\* the others start worker i in a loop over i.
SpawnTarget(k) ==
    IF variant = "glm5_libfork" THEN num_workers - 1 - k ELSE k

Spawn ==
    /\ Running
    /\ spawned < num_workers
    /\ pc' = [pc EXCEPT ![SpawnTarget(spawned)] = "Fetching"]
    /\ spawned' = spawned + 1
    /\ UNCHANGED <<rcvars, args, benchvars, calcvars>>
    /\ UNCHANGED <<variant, num_tasks, chunk_size, num_workers, total_tasks,
                   next_task_id, task_queue, cur, primes, completed, g_results,
                   g_completed_tasks, g_total_primes, progress_log, handed,
                   mainpc, collected, written, io_failed>>

\* The spawn loop / recursion is over (at once when num_workers <= 0).
AllSpawned == spawned >= num_workers

SomeFaulted == \E w \in Workers : pc[w] = "Faulted"

\* Every worker's future / coroutine / thread has completed, with or
\* without an exception.
AllFinished == AllSpawned /\ \A w \in Workers : pc[w] \in {"Done", "Faulted"}

\* Mutant: the main routine goes on once the workers are started.
JoinReturns_Early == AllSpawned

\* The join returns normally: lf::join + lf::sync_wait, thread::join,
\* when_all_succeed(...).then, when_all(...).discard_result().then.
\* when_all ignores a failed future; the others pass the exception on.
JoinReturns ==
    IF variant \in QueueVariants
    THEN AllFinished
    ELSE AllFinished /\ ~SomeFaulted

Join ==
    /\ Running
    /\ JoinReturns
    /\ mainpc' = "output"
    /\ UNCHANGED <<rcvars, args, benchvars, calcvars>>
    /\ UNCHANGED <<variant, num_tasks, chunk_size, num_workers, total_tasks,
                   next_task_id, task_queue, pc, cur, primes, completed,
                   g_results, g_completed_tasks, g_total_primes, progress_log,
                   handed, spawned, collected, written, io_failed>>

\* An exception thrown by a worker ends the run without output.
\* minimax_prime: it leaves lf::sync_wait inside the std::thread, which
\* terminates the process at once.  glm5_libfork: rethrown by sync_wait in
\* main once the fork-join tree has completed.  minimax_seastar: the failed
\* future of when_all_succeed skips the continuation that writes.
Abort ==
    /\ Running
    /\ variant \notin QueueVariants
    /\ SomeFaulted
    /\ variant = "minimax_prime" \/ AllFinished
    /\ mainpc' = "aborted"
    /\ UNCHANGED <<rcvars, args, benchvars, calcvars>>
    /\ UNCHANGED <<variant, num_tasks, chunk_size, num_workers, total_tasks,
                   next_task_id, task_queue, pc, cur, primes, completed,
                   g_results, g_completed_tasks, g_total_primes, progress_log,
                   handed, spawned, collected, written, io_failed>>

\* The task id of a result; glm5_seastar keeps no id, its tasks are
\* numbered by their start.
ResultId(r) ==
    IF variant \in QueueVariants THEN (r.start - 2) \div chunk_size ELSE r.task_id

\* Mutant: the comparator is reversed.
ResultLess_Reversed(a, b) ==
    IF variant \in QueueVariants THEN a.start > b.start ELSE a.task_id > b.task_id

\* The comparator given to std::sort: a.task_id < b.task_id, or
\* a.start < b.start in glm5_seastar.
ResultLess(a, b) ==
    IF variant \in QueueVariants THEN a.start < b.start ELSE a.task_id < b.task_id

RECURSIVE InsertSorted(_, _)
InsertSorted(sorted, r) ==
    IF sorted = <<>> THEN <<r>>
    ELSE IF ResultLess(r, Head(sorted)) THEN <<r>> \o sorted
    ELSE <<Head(sorted)>> \o InsertSorted(Tail(sorted), r)

RECURSIVE SortFrom(_, _)
SortFrom(rest, sorted) ==
    IF rest = <<>> THEN sorted
    ELSE SortFrom(Tail(rest), InsertSorted(sorted, Head(rest)))

\* std::sort(g_results.begin(), g_results.end(), comparator)
SortResults(results) == SortFrom(results, <<>>)

\* The records of the loop that writes one line per result.
WriteAll(results) == [i \in 1 .. Len(results) |-> Line(results[i])]

\* outputResults / output_results.  glm5_libfork and minimax_prime open the
\* file first and return when that fails; the Seastar variants sort and
\* build the content first and open the file afterwards.
OutputResults ==
    /\ mainpc = "output"
    /\ \E opened \in BOOLEAN :
          /\ io_failed' = ~opened
          /\ collected' = g_results
          /\ g_results' =
                IF opened \/ variant \in {"minimax_seastar", "glm5_seastar"}
                THEN SortResults(g_results) ELSE g_results
          /\ written' = IF opened THEN WriteAll(SortResults(g_results)) ELSE <<>>
    /\ mainpc' = "done"
    /\ UNCHANGED <<rcvars, args, benchvars, calcvars>>
    /\ UNCHANGED <<variant, num_tasks, chunk_size, num_workers, total_tasks,
                   next_task_id, task_queue, pc, cur, primes, completed,
                   g_completed_tasks, g_total_primes, progress_log, handed,
                   spawned>>

-----------------------------------------------------------------------------
(* The programs that collect the results in memory.                        *)

Next ==
    \/ Spawn
    \/ \E w \in Workers : GetNextTaskAtomic(w)
    \/ \E w \in Workers : GetNextTaskLocked(w)
    \/ \E w \in Workers : GetNextTaskQueue(w)
    \/ \E w \in Workers : Compute(w)
    \/ \E w \in Workers : Push(w)
    \/ \E w \in Workers : IncCompleted(w)
    \/ \E w \in Workers : IncPrimes(w)
    \/ \E w \in Workers : LoadCompleted(w)
    \/ \E w \in Workers : CheckPeriod(w)
    \/ \E w \in Workers : CheckFinal(w)
    \/ \E w \in Workers : PrintProgress(w)
    \/ \E w \in Workers : Collect(w)
    \/ Join
    \/ Abort
    \/ OutputResults

Spec == Init /\ [][Next]_vars

-----------------------------------------------------------------------------
(* pony_alpha: every record is written when its task completes.            *)

\* write_result_to_csv, run on core 0 by submit_to(0): write the line to
\* state.output_file (a stream that failed to open writes nothing), count
\* the task, print the progress when due.
WriteCsv(w) ==
    /\ Alive
    /\ variant = "pony_alpha"
    /\ pc[w] = "Write"
    /\ Core0Free
    /\ written' = IF io_failed THEN written ELSE Append(written, Line(MakeResult(w)))
    /\ g_completed_tasks' = g_completed_tasks + 1
    /\ progress_log' =
          IF ProgressDue(g_completed_tasks + 1)
          THEN Append(progress_log, [completed |-> g_completed_tasks + 1])
          ELSE progress_log
    /\ NextIteration(w)
    /\ UNCHANGED <<rcvars, args, benchvars, calcvars>>
    /\ UNCHANGED <<variant, num_tasks, chunk_size, num_workers, total_tasks,
                   next_task_id, task_queue, g_results, g_total_primes, handed,
                   mainpc, spawned, collected, io_failed>>

\* close_output_file, after when_all(...).discard_result().
CloseOutput ==
    /\ mainpc = "output"
    /\ variant = "pony_alpha"
    /\ mainpc' = "done"
    /\ UNCHANGED <<rcvars, args, benchvars, calcvars>>
    /\ UNCHANGED <<variant, num_tasks, chunk_size, num_workers, total_tasks,
                   next_task_id, task_queue, pc, cur, primes, completed,
                   g_results, g_completed_tasks, g_total_primes, progress_log,
                   handed, spawned, collected, written, io_failed>>

\* main: the task count and the chunk size are validated, the queue is
\* built, the output file is opened (the run goes on when that fails).
InitStream ==
    /\ variant \in StreamVariants
    /\ num_tasks \in 1 .. MaxTasks
    /\ io_failed \in BOOLEAN
    /\ InitCommon

NextStream ==
    \/ Spawn
    \/ \E w \in Workers : GetNextTaskQueue(w)
    \/ \E w \in Workers : Compute(w)
    \/ \E w \in Workers : WriteCsv(w)
    \/ Join
    \/ CloseOutput

SpecStream == InitStream /\ [][NextStream]_vars

-----------------------------------------------------------------------------
(* Runs in which a computation may fail.                                   *)

\* primes.push_back(n) cannot allocate and throws std::bad_alloc: the
\* computation of the worker's task ends by an exception.
ComputeFails(w) ==
    /\ Alive
    /\ pc[w] = "Computing"
    /\ pc' = [pc EXCEPT ![w] = "Faulted"]
    /\ UNCHANGED <<rcvars, args, benchvars, calcvars>>
    /\ UNCHANGED <<variant, num_tasks, chunk_size, num_workers, total_tasks,
                   next_task_id, task_queue, cur, primes, completed, g_results,
                   g_completed_tasks, g_total_primes, progress_log, handed,
                   mainpc, spawned, collected, written, io_failed>>

NextFault ==
    \/ Next
    \/ \E w \in Workers : ComputeFails(w)

SpecFault == Init /\ [][NextFault]_vars

-----------------------------------------------------------------------------
(* The start of main: the arguments as given, their validation, the        *)
(* construction of the task source and the start of the workers.           *)

MaxArg == 2

DefaultTasks == 20
DefaultChunk == 100000
DefaultThreads == 4
ChunkLimit == 100000

\* A value given on the command line (atoi / program_options int).
ArgValues == (0 - 1) .. MaxArg

ConfigVariants == MemoryVariants \cup StreamVariants \cup {"sequence_prime", "test_simple"}

\* The programs whose worker count is seastar::smp::count (always >= 1).
SmpVariants == {"minimax_seastar", "glm5_seastar", "pony_alpha", "test_simple"}

\* if (x <= 0) x = dflt;
Clamp(x, dflt) == IF x <= 0 THEN dflt ELSE x

\* The task count the run uses.
ValidTasks(v, x) ==
    CASE v \in {"glm5_libfork", "minimax_prime", "glm5_seastar", "pony_alpha"} ->
             Clamp(x, DefaultTasks)
      [] v = "sequence_prime" -> Clamp(x, 1)
      [] OTHER -> x

\* The chunk size the run uses; minimax_prime also limits it to 100000.
ValidChunk(v, x) ==
    CASE v \in {"glm5_libfork", "glm5_seastar", "pony_alpha", "sequence_prime"} ->
             Clamp(x, DefaultChunk)
      [] v = "minimax_prime" ->
             IF Clamp(x, DefaultChunk) > ChunkLimit THEN ChunkLimit
             ELSE Clamp(x, DefaultChunk)
      [] OTHER -> x

\* The worker count the run uses.
ValidThreads(v, x) ==
    CASE v \in {"glm5_libfork", "minimax_prime"} -> Clamp(x, DefaultThreads)
      [] v \in {"sequence_prime", "minimax_seastar"} -> Clamp(x, 1)
      [] OTHER -> x

\* test_simple prints an error and returns when a count is not positive.
Rejects(v, a) == v = "test_simple" /\ (a.tasks <= 0 \/ a.chunk <= 0)

\* The validation of the arguments in main / seastar_main.
ValidateArgs ==
    /\ mainpc = "args"
    /\ IF Rejects(variant, args)
       THEN /\ mainpc' = "rejected"
            /\ UNCHANGED <<num_tasks, chunk_size, num_workers>>
       ELSE /\ mainpc' = "validated"
            /\ num_tasks' = ValidTasks(variant, args.tasks)
            /\ chunk_size' = ValidChunk(variant, args.chunk)
            /\ num_workers' = ValidThreads(variant, args.threads)
    /\ UNCHANGED <<rcvars, args, benchvars, calcvars>>
    /\ UNCHANGED <<variant, total_tasks, next_task_id, task_queue, pc, cur,
                   primes, completed, g_results, g_completed_tasks,
                   g_total_primes, progress_log, handed, spawned, collected,
                   written, io_failed>>

\* initTaskQueue / init_task_queue with the validated values; the workers
\* exist from here on.
StartRun ==
    /\ mainpc = "validated"
    /\ mainpc' = IF variant \in MemoryVariants \cup StreamVariants THEN "run" ELSE "started"
    /\ next_task_id' = 0
    /\ task_queue' = IF variant \in QueueVariants
                     THEN init_task_queue(variant, num_tasks * chunk_size, chunk_size)
                     ELSE <<>>
    /\ total_tasks' = IF variant \in QueueVariants THEN Len(task_queue') ELSE num_tasks
    /\ pc' = [w \in Workers |-> "Idle"]
    /\ cur' = [w \in Workers |-> NoTask]
    /\ primes' = [w \in Workers |-> <<>>]
    /\ completed' = [w \in Workers |-> 0]
    /\ current' = [w \in Workers |-> 0]
    /\ since_yield' = [w \in Workers |-> 0]
    /\ UNCHANGED <<variant, num_tasks, chunk_size, num_workers, g_results,
                   g_completed_tasks, g_total_primes, progress_log, handed,
                   spawned, collected, written, io_failed, args, benchvars, calcvars>>

\* main before the validation: the locals hold the values given.
InitConfig ==
    /\ variant \in ConfigVariants
    /\ args \in [tasks : ArgValues, chunk : ArgValues, threads : ArgValues]
    /\ variant \in SmpVariants => args.threads >= 1
    /\ num_tasks = args.tasks
    /\ chunk_size = args.chunk
    /\ num_workers = args.threads
    /\ total_tasks = 0
    /\ next_task_id = 0
    /\ task_queue = <<>>
    /\ pc = <<>>
    /\ cur = <<>>
    /\ primes = <<>>
    /\ completed = <<>>
    /\ current = <<>>
    /\ since_yield = <<>>
    /\ g_results = <<>>
    /\ g_completed_tasks = 0
    /\ g_total_primes = 0
    /\ progress_log = <<>>
    /\ handed = <<>>
    /\ mainpc = "args"
    /\ spawned = 0
    /\ collected = <<>>
    /\ written = <<>>
    /\ io_failed = FALSE
    /\ shard = <<>>
    /\ calls = <<>>
    /\ totals = <<>>
    /\ alive = TRUE
    /\ monitor = "Unstarted"
    /\ stale = {}

NextConfig ==
    \/ ValidateArgs
    \/ StartRun
    \/ Spawn

SpecConfig == InitConfig /\ [][NextConfig]_vars

-----------------------------------------------------------------------------
(* sequence_prime: the sequential program, as a function of the            *)
(* configuration.                                                          *)

RECURSIVE SequentialLoop(_, _)
\* sequentialCompute: for (task_id = 0; task_id < num_tasks; ++task_id)
\* compute the task and push its result (core_id 0).  computePrimesInRange
\* reserves (end - start) / 20 first; when that throws the program ends.
SequentialLoop(task_id, results) ==
    IF task_id >= num_tasks THEN [completed |-> TRUE, results |-> results]
    ELSE IF Wrap(TaskEnd(task_id) - TaskStart(task_id)) \div 20 > MaxAlloc
    THEN [completed |-> FALSE, results |-> results]
    ELSE SequentialLoop(task_id + 1,
             Append(results,
                    [task_id |-> task_id, start |-> TaskStart(task_id),
                     end |-> TaskEnd(task_id), core_id |-> 0,
                     primes |-> PrimesLoop(TaskStart(task_id), TaskEnd(task_id), <<>>)]))

sequentialCompute == SequentialLoop(0, <<>>)

-----------------------------------------------------------------------------
(* The range computer alone: one call of computePrimesInRange /            *)
(* compute_primes_in_range / segmented_sieve on a sub-range start..end,    *)
(* followed step by step, with the points where the caller yields.         *)

MaxNumber == 130
MaxSpan == 7

\* The programs whose workers run on a Seastar reactor.
SeastarVariants == {"minimax_seastar", "glm5_seastar", "pony_alpha", "prime_calculator"}

RangeVariants == MemoryVariants \cup StreamVariants \cup {"prime_calculator"}

\* Mutant: the next batch starts one past batch_end + 1.
TestBatch_SkipOne(w) ==
    /\ variant = "glm5_seastar"
    /\ pc[w] = "Computing"
    /\ current[w] <= cur[w].end
    /\ LET batch_end == IF Wrap(current[w] + BATCH_SIZE - 1) < cur[w].end
                        THEN Wrap(current[w] + BATCH_SIZE - 1) ELSE cur[w].end
       IN  /\ primes' = [primes EXCEPT ![w] = PrimesLoop(current[w], batch_end, @)]
           /\ since_yield' = [since_yield EXCEPT ![w] = @ + (batch_end - current[w] + 1)]
           /\ current' = [current EXCEPT ![w] = batch_end + 2]
    /\ pc' = [pc EXCEPT ![w] = "Yielding"]
    /\ UNCHANGED <<args, benchvars, calcvars>>
    /\ UNCHANGED <<variant, num_tasks, chunk_size, num_workers, total_tasks,
                   next_task_id, task_queue, cur, completed, g_results,
                   g_completed_tasks, g_total_primes, progress_log, handed,
                   mainpc, spawned, collected, written, io_failed>>

\* glm5_seastar: batch_end = min(current + BATCH_SIZE - 1, end), the inner
\* loop over current..batch_end, current = batch_end + 1.
TestBatch(w) ==
    /\ variant = "glm5_seastar"
    /\ pc[w] = "Computing"
    /\ current[w] <= cur[w].end
    /\ LET batch_end == IF Wrap(current[w] + BATCH_SIZE - 1) < cur[w].end
                        THEN Wrap(current[w] + BATCH_SIZE - 1) ELSE cur[w].end
       IN  /\ primes' = [primes EXCEPT ![w] = PrimesLoop(current[w], batch_end, @)]
           /\ since_yield' = [since_yield EXCEPT ![w] = @ + (batch_end - current[w] + 1)]
           /\ current' = [current EXCEPT ![w] = batch_end + 1]
    /\ pc' = [pc EXCEPT ![w] = "Yielding"]
    /\ UNCHANGED <<args, benchvars, calcvars>>
    /\ UNCHANGED <<variant, num_tasks, chunk_size, num_workers, total_tasks,
                   next_task_id, task_queue, cur, completed, g_results,
                   g_completed_tasks, g_total_primes, progress_log, handed,
                   mainpc, spawned, collected, written, io_failed>>

\* glm5_seastar: if (seastar::thread::running_in_thread()) seastar::thread::yield();
\* (the computation runs in seastar::async), then the test of the while loop.
Yield(w) ==
    /\ variant = "glm5_seastar"
    /\ pc[w] = "Yielding"
    /\ since_yield' = [since_yield EXCEPT ![w] = 0]
    /\ pc' = [pc EXCEPT ![w] = IF current[w] <= cur[w].end THEN "Computing" ELSE "Returned"]
    /\ UNCHANGED <<args, benchvars, calcvars>>
    /\ UNCHANGED <<variant, num_tasks, chunk_size, num_workers, total_tasks,
                   next_task_id, task_queue, cur, primes, completed, g_results,
                   g_completed_tasks, g_total_primes, progress_log, handed,
                   mainpc, spawned, collected, written, io_failed, current>>

\* The other programs: one loop over start..end, no yield inside.
\* prime_calculator's process_task calls segmented_sieve.
TestAll(w) ==
    /\ variant # "glm5_seastar"
    /\ pc[w] = "Computing"
    /\ primes' = [primes EXCEPT ![w] =
                     IF variant = "prime_calculator"
                     THEN segmented_sieve(cur[w].start, cur[w].end)
                     ELSE computePrimesInRange(cur[w].start, cur[w].end)]
    /\ since_yield' = [since_yield EXCEPT ![w] = @ + (cur[w].end - cur[w].start + 1)]
    /\ current' = [current EXCEPT ![w] = cur[w].end + 1]
    /\ pc' = [pc EXCEPT ![w] = "Returned"]
    /\ UNCHANGED <<args, benchvars, calcvars>>
    /\ UNCHANGED <<variant, num_tasks, chunk_size, num_workers, total_tasks,
                   next_task_id, task_queue, cur, completed, g_results,
                   g_completed_tasks, g_total_primes, progress_log, handed,
                   mainpc, spawned, collected, written, io_failed>>

\* A worker holds a sub-range start..end and is about to compute it.
InitRange ==
    /\ variant \in RangeVariants
    /\ num_tasks = 1
    /\ chunk_size = 1
    /\ num_workers = 1
    /\ total_tasks = 1
    /\ next_task_id = 1
    /\ task_queue = <<>>
    /\ pc = [w \in Workers |-> "Computing"]
    /\ \E start \in 0 .. MaxNumber : \E span \in 0 .. MaxSpan :
          /\ cur = [w \in Workers |-> [task_id |-> 0, start |-> start, end |-> start + span]]
          /\ current = [w \in Workers |-> start]
    /\ primes = [w \in Workers |-> <<>>]
    /\ completed = [w \in Workers |-> 0]
    /\ since_yield = [w \in Workers |-> 0]
    /\ g_results = <<>>
    /\ g_completed_tasks = 0
    /\ g_total_primes = 0
    /\ progress_log = <<>>
    /\ handed = <<>>
    /\ mainpc = "run"
    /\ spawned = 1
    /\ collected = <<>>
    /\ written = <<>>
    /\ io_failed = FALSE
    /\ args = [tasks |-> num_tasks, chunk |-> chunk_size, threads |-> num_workers]
    /\ shard = <<>>
    /\ calls = <<>>
    /\ totals = <<>>
    /\ alive = TRUE
    /\ monitor = "Unstarted"
    /\ stale = {}

NextRange ==
    \/ \E w \in Workers : TestBatch(w)
    \/ \E w \in Workers : Yield(w)
    \/ \E w \in Workers : TestAll(w)

SpecRange == InitRange /\ [][NextRange]_vars

-----------------------------------------------------------------------------
(* The benchmarks prime_bench and test_simple.  Each shard runs            *)
(* count_primes_on_shard: it takes task ids from the atomic counter and    *)
(* counts the primes of the task's range batch by batch, yielding after    *)
(* every batch.  map_reduce adds the shards' totals; the total is compared *)
(* with a libfork fork-join count (prime_bench) and a sequential count.    *)
(* The programs compute with int; the bounds keep every value far below    *)
(* INT_MAX.                                                                *)

MaxBenchChunk == 7

BenchVariants == {"prime_bench", "test_simple"}

\* if (start > 10000000) batch_size = 2000;  (the threshold, scaled like BATCH_SIZE)
LargeStart == 8

RECURSIVE OddTrial(_, _, _)
\* for (j = 3; j <= limit; j += 2) if (i % j == 0) { is_prime = false; break; }
OddTrial(i, j, limit) ==
    IF j > limit THEN TRUE
    ELSE IF i % j = 0 THEN FALSE
    ELSE OddTrial(i, j + 2, limit)

RECURSIVE OddLoop(_, _, _)
\* for (i = actual_start; i <= end; i += 2) { limit = (int)sqrt(i); ...;
\*   if (is_prime) count++; }
OddLoop(i, end, count) ==
    IF i > end THEN count
    ELSE OddLoop(i + 2, end,
             IF OddTrial(i, 3, ISqrt(i)) THEN count + 1 ELSE count)

\* count_primes_in_range (and test_simple's find_primes(...).size()).
count_primes_in_range(start, end) ==
    IF start > end THEN 0
    ELSE LET from == IF start < 2 THEN 2 ELSE start
             count == IF from <= 2 /\ end >= 2 THEN 1 ELSE 0
             odd == IF from % 2 = 0 THEN from + 1 ELSE from
             actual_start == IF odd < 3 THEN 3 ELSE odd
         IN  OddLoop(actual_start, end, count)

\* test_simple's sequential_prime_count, prime_bench_lf's
\* sequential_prime_count_original: 2 if max_number >= 2, then the odd
\* candidates from 3; the size of the vector.
sequential_prime_count(max_number) ==
    OddLoop(3, max_number, IF max_number >= 2 THEN 1 ELSE 0)

RECURSIVE parallel_prime_count_libfork(_, _, _)
\* The fork-join count over the task ids start_task .. end_task - 1: each
\* frame adds its own left_count and right_count after the join.
parallel_prime_count_libfork(start_task, end_task, chunk) ==
    LET n == end_task - start_task
    IN  IF n = 0 THEN 0
        ELSE IF n = 1
             THEN count_primes_in_range(start_task * chunk + 1,
                                        (start_task + 1) * chunk)
             ELSE LET mid == start_task + n \div 2
                  IN  parallel_prime_count_libfork(start_task, mid, chunk)
                      + parallel_prime_count_libfork(mid, end_task, chunk)

\* The locals of count_primes_on_shard when the shard starts.
NewShard == [total_primes |-> 0, tasks_completed |-> 0, start |-> 0, end |-> 0,
             batch_size |-> 0, batch_start |-> 0, batch_primes |-> 0]

\* task_id = get_next_task(); if (task_id >= total_tasks) break;
\* tasks_completed++; start = task_id * numbers_per_task + 1;
\* end = (task_id + 1) * numbers_per_task; batch_size; batch_primes = 0.
ShardFetch(w) ==
    /\ variant \in BenchVariants
    /\ mainpc = "run"
    /\ pc[w] = "Fetching"
    /\ LET task_id == next_task_id
           start == task_id * chunk_size + 1
       IN  /\ next_task_id' = FetchAdd(next_task_id)
           /\ IF Exhausted(task_id)
              THEN /\ pc' = [pc EXCEPT ![w] = "Done"]
                   /\ UNCHANGED shard
              ELSE /\ pc' = [pc EXCEPT ![w] = "Counting"]
                   /\ shard' = [shard EXCEPT ![w] =
                         [total_primes |-> @.total_primes,
                          tasks_completed |-> @.tasks_completed + 1,
                          start |-> start,
                          end |-> (task_id + 1) * chunk_size,
                          batch_size |-> IF start > LargeStart
                                         THEN 2 * BATCH_SIZE ELSE BATCH_SIZE,
                          batch_start |-> start,
                          batch_primes |-> 0]]
    /\ UNCHANGED <<rcvars, args, calls, totals, calcvars>>
    /\ UNCHANGED <<variant, num_tasks, chunk_size, num_workers, total_tasks,
                   task_queue, cur, primes, completed, g_results,
                   g_completed_tasks, g_total_primes, progress_log, handed,
                   mainpc, spawned, collected, written, io_failed>>

\* Mutant: the batch ends one short of the next batch's start.
BatchEnd_Short(batch_start, batch_size, end) ==
    IF batch_start + batch_size - 2 < end
    THEN batch_start + batch_size - 2 ELSE end

\* batch_end = std::min(batch_start + batch_size - 1, end)
BatchEnd(batch_start, batch_size, end) ==
    IF batch_start + batch_size - 1 < end
    THEN batch_start + batch_size - 1 ELSE end

\* One round of the batch loop: batch_primes += count_primes_in_range(
\* batch_start, batch_end); ss::thread::yield(); batch_start += batch_size.
ShardBatch(w) ==
    /\ variant \in BenchVariants
    /\ pc[w] = "Counting"
    /\ shard[w].batch_start <= shard[w].end
    /\ LET s == shard[w]
           batch_end == BatchEnd(s.batch_start, s.batch_size, s.end)
       IN  shard' = [shard EXCEPT ![w] =
               [@ EXCEPT !.batch_primes =
                             @ + count_primes_in_range(s.batch_start, batch_end),
                         !.batch_start = @ + s.batch_size]]
    /\ UNCHANGED <<rcvars, args, calls, totals, calcvars>>
    /\ UNCHANGED <<variant, num_tasks, chunk_size, num_workers, total_tasks,
                   next_task_id, task_queue, pc, cur, primes, completed,
                   g_results, g_completed_tasks, g_total_primes, progress_log,
                   handed, mainpc, spawned, collected, written, io_failed>>

\* The batch loop is over: total_primes += batch_primes, then the next task.
ShardAdd(w) ==
    /\ variant \in BenchVariants
    /\ pc[w] = "Counting"
    /\ shard[w].batch_start > shard[w].end
    /\ shard' = [shard EXCEPT ![w] =
           [@ EXCEPT !.total_primes = @ + shard[w].batch_primes]]
    /\ pc' = [pc EXCEPT ![w] = "Fetching"]
    /\ UNCHANGED <<rcvars, args, calls, totals, calcvars>>
    /\ UNCHANGED <<variant, num_tasks, chunk_size, num_workers, total_tasks,
                   next_task_id, task_queue, cur, primes, completed,
                   g_results, g_completed_tasks, g_total_primes, progress_log,
                   handed, mainpc, spawned, collected, written, io_failed>>

RECURSIVE ReduceShards(_, _)
\* map_reduce's reducer: total + count, over the shards.
ReduceShards(w, total) ==
    IF w >= num_workers THEN total
    ELSE ReduceShards(w + 1, total + shard[w].total_primes)

\* Every shard's future is resolved: the reduced total is the work-stealing
\* run's result.
MapReduce ==
    /\ variant \in BenchVariants
    /\ mainpc = "run"
    /\ \A w \in Workers : pc[w] = "Done"
    /\ totals' = Append(totals, [name |-> "Seastar",
                                 primes |-> ReduceShards(0, 0)])
    /\ mainpc' = IF variant = "prime_bench" THEN "libfork" ELSE "sequential"
    /\ UNCHANGED <<rcvars, args, shard, calls, calcvars>>
    /\ UNCHANGED <<variant, num_tasks, chunk_size, num_workers, total_tasks,
                   next_task_id, task_queue, pc, cur, primes, completed,
                   g_results, g_completed_tasks, g_total_primes, progress_log,
                   handed, spawned, collected, written, io_failed>>

\* prime_bench: lf::sync_wait(pool, parallel_prime_count_libfork, 0,
\* num_tasks, chunk_size).
RunLibfork ==
    /\ variant = "prime_bench"
    /\ mainpc = "libfork"
    /\ totals' = Append(totals,
           [name |-> "libfork",
            primes |-> parallel_prime_count_libfork(0, num_tasks, chunk_size)])
    /\ mainpc' = "sequential"
    /\ UNCHANGED <<rcvars, args, shard, calls, calcvars>>
    /\ UNCHANGED <<variant, num_tasks, chunk_size, num_workers, total_tasks,
                   next_task_id, task_queue, pc, cur, primes, completed,
                   g_results, g_completed_tasks, g_total_primes, progress_log,
                   handed, spawned, collected, written, io_failed>>

\* The sequential count of 2 .. max_number, max_number = num_tasks * chunk_size.
RunSequential ==
    /\ variant \in BenchVariants
    /\ mainpc = "sequential"
    /\ LET max_number == num_tasks * chunk_size
       IN  totals' = Append(totals,
               [name |-> "Sequential",
                primes |-> IF variant = "prime_bench"
                           THEN count_primes_in_range(2, max_number)
                           ELSE sequential_prime_count(max_number)])
    /\ mainpc' = "done"
    /\ UNCHANGED <<rcvars, args, shard, calls, calcvars>>
    /\ UNCHANGED <<variant, num_tasks, chunk_size, num_workers, total_tasks,
                   next_task_id, task_queue, pc, cur, primes, completed,
                   g_results, g_completed_tasks, g_total_primes, progress_log,
                   handed, spawned, collected, written, io_failed>>

\* The state after the arguments are validated, total_tasks and
\* numbers_per_task are set, the counter is reset and every shard has been
\* handed count_primes_on_shard.
InitBench ==
    /\ variant \in BenchVariants
    /\ num_tasks \in 1 .. MaxTasks
    /\ chunk_size \in 1 .. MaxBenchChunk
    /\ num_workers \in 1 .. MaxWorkers
    /\ total_tasks = num_tasks
    /\ next_task_id = 0
    /\ task_queue = <<>>
    /\ pc = [w \in Workers |-> "Fetching"]
    /\ cur = [w \in Workers |-> NoTask]
    /\ primes = [w \in Workers |-> <<>>]
    /\ completed = [w \in Workers |-> 0]
    /\ current = [w \in Workers |-> 0]
    /\ since_yield = [w \in Workers |-> 0]
    /\ g_results = <<>>
    /\ g_completed_tasks = 0
    /\ g_total_primes = 0
    /\ progress_log = <<>>
    /\ handed = <<>>
    /\ mainpc = "run"
    /\ spawned = num_workers
    /\ collected = <<>>
    /\ written = <<>>
    /\ io_failed = FALSE
    /\ args = [tasks |-> num_tasks, chunk |-> chunk_size, threads |-> num_workers]
    /\ shard = [w \in Workers |-> NewShard]
    /\ calls = <<>>
    /\ totals = <<>>
    /\ alive = TRUE
    /\ monitor = "Unstarted"
    /\ stale = {}

NextBench ==
    \/ \E w \in Workers : ShardFetch(w)
    \/ \E w \in Workers : ShardBatch(w)
    \/ \E w \in Workers : ShardAdd(w)
    \/ MapReduce
    \/ RunLibfork
    \/ RunSequential

SpecBench == InitBench /\ [][NextBench]_vars

-----------------------------------------------------------------------------
(* The benchmark prime_bench_lf: parallel_prime_count halves the range     *)
(* start .. end until it is no longer than the granularity.  A call forks  *)
(* its left half, calls its right half and joins; the calls of the tree    *)
(* that are ready run in any order.  A call is named by its path from the  *)
(* root (0: the forked left half, 1: the called right half).               *)

MaxLfNumber == 12
MaxGranularity == 3

\* Mutant: the right half starts at mid, not after it.
RightStart_AtMid(mid) == mid

\* lf::call[&right_count, self](mid + 1, end, granularity)
RightStart(mid) == mid + 1

\* A call that has not started yet.
NewCall(start, end) == [start |-> start, end |-> end, state |-> "ready", count |-> 0]

\* A call starts: range = end - start; a range within the granularity is
\* counted at once (co_return count_primes_in_range(start, end)); otherwise
\* mid = start + range / 2, the left half is forked and the right called.
LfCall(p) ==
    /\ variant = "prime_bench_lf"
    /\ mainpc = "run"
    /\ p \in DOMAIN calls
    /\ calls[p].state = "ready"
    /\ LET start == calls[p].start
           end == calls[p].end
           range == end - start
           mid == start + range \div 2
       IN  IF range <= args.granularity
           THEN calls' = [calls EXCEPT ![p] =
                    [@ EXCEPT !.state = "returned",
                              !.count = count_primes_in_range(start, end)]]
           ELSE calls' = [q \in DOMAIN calls \cup {Append(p, 0), Append(p, 1)} |->
                    IF q = p THEN [calls[p] EXCEPT !.state = "joining"]
                    ELSE IF q = Append(p, 0) THEN NewCall(start, mid)
                    ELSE IF q = Append(p, 1) THEN NewCall(RightStart(mid), end)
                    ELSE calls[q]]
    /\ UNCHANGED <<rcvars, args, shard, totals, calcvars>>
    /\ UNCHANGED <<variant, num_tasks, chunk_size, num_workers, total_tasks,
                   next_task_id, task_queue, pc, cur, primes, completed,
                   g_results, g_completed_tasks, g_total_primes, progress_log,
                   handed, mainpc, spawned, collected, written, io_failed>>

\* co_await lf::join; co_return left_count + right_count;
LfJoin(p) ==
    /\ variant = "prime_bench_lf"
    /\ p \in DOMAIN calls
    /\ calls[p].state = "joining"
    /\ calls[Append(p, 0)].state = "returned"
    /\ calls[Append(p, 1)].state = "returned"
    /\ calls' = [calls EXCEPT ![p] =
           [@ EXCEPT !.state = "returned",
                     !.count = calls[Append(p, 0)].count + calls[Append(p, 1)].count]]
    /\ UNCHANGED <<rcvars, args, shard, totals, calcvars>>
    /\ UNCHANGED <<variant, num_tasks, chunk_size, num_workers, total_tasks,
                   next_task_id, task_queue, pc, cur, primes, completed,
                   g_results, g_completed_tasks, g_total_primes, progress_log,
                   handed, mainpc, spawned, collected, written, io_failed>>

\* parallel_primes = lf::sync_wait(pool, parallel_prime_count, 1,
\* config.max_number, config.granularity) returns the root call's count.
LfSyncWait ==
    /\ variant = "prime_bench_lf"
    /\ mainpc = "run"
    /\ calls[<<>>].state = "returned"
    /\ totals' = Append(totals, [name |-> "parallel", primes |-> calls[<<>>].count])
    /\ mainpc' = "sequential"
    /\ UNCHANGED <<rcvars, args, shard, calls, calcvars>>
    /\ UNCHANGED <<variant, num_tasks, chunk_size, num_workers, total_tasks,
                   next_task_id, task_queue, pc, cur, primes, completed,
                   g_results, g_completed_tasks, g_total_primes, progress_log,
                   handed, spawned, collected, written, io_failed>>

\* seq_primes = sequential_prime_count(config.max_number), which is
\* count_primes_in_range(2, max_number).
LfSequential ==
    /\ variant = "prime_bench_lf"
    /\ mainpc = "sequential"
    /\ totals' = Append(totals, [name |-> "seq",
                                 primes |-> count_primes_in_range(2, args.max_number)])
    /\ mainpc' = "original"
    /\ UNCHANGED <<rcvars, args, shard, calls, calcvars>>
    /\ UNCHANGED <<variant, num_tasks, chunk_size, num_workers, total_tasks,
                   next_task_id, task_queue, pc, cur, primes, completed,
                   g_results, g_completed_tasks, g_total_primes, progress_log,
                   handed, spawned, collected, written, io_failed>>

\* seq_original_primes = sequential_prime_count_original(config.max_number).first
LfOriginal ==
    /\ variant = "prime_bench_lf"
    /\ mainpc = "original"
    /\ totals' = Append(totals, [name |-> "seq_original",
                                 primes |-> sequential_prime_count(args.max_number)])
    /\ mainpc' = "done"
    /\ UNCHANGED <<rcvars, args, shard, calls, calcvars>>
    /\ UNCHANGED <<variant, num_tasks, chunk_size, num_workers, total_tasks,
                   next_task_id, task_queue, pc, cur, primes, completed,
                   g_results, g_completed_tasks, g_total_primes, progress_log,
                   handed, spawned, collected, written, io_failed>>

\* The state after parse_args (max_number and granularity positive), with
\* the root call parallel_prime_count(1, max_number, granularity) handed to
\* the pool.
InitLf ==
    /\ variant = "prime_bench_lf"
    /\ args \in [max_number : 1 .. MaxLfNumber, granularity : 1 .. MaxGranularity,
                 num_threads : 1 .. MaxWorkers]
    /\ num_tasks = 0
    /\ chunk_size = 0
    /\ num_workers = args.num_threads
    /\ total_tasks = 0
    /\ next_task_id = 0
    /\ task_queue = <<>>
    /\ pc = <<>>
    /\ cur = <<>>
    /\ primes = <<>>
    /\ completed = <<>>
    /\ current = <<>>
    /\ since_yield = <<>>
    /\ g_results = <<>>
    /\ g_completed_tasks = 0
    /\ g_total_primes = 0
    /\ progress_log = <<>>
    /\ handed = <<>>
    /\ mainpc = "run"
    /\ spawned = 0
    /\ collected = <<>>
    /\ written = <<>>
    /\ io_failed = FALSE
    /\ shard = <<>>
    /\ calls = [p \in {<<>>} |-> NewCall(1, args.max_number)]
    /\ totals = <<>>
    /\ alive = TRUE
    /\ monitor = "Unstarted"
    /\ stale = {}

NextLf ==
    \/ \E p \in DOMAIN calls : LfCall(p)
    \/ \E p \in DOMAIN calls : LfJoin(p)
    \/ LfSyncWait
    \/ LfSequential
    \/ LfOriginal

SpecLf == InitLf /\ [][NextLf]_vars

\* The pool runs a ready call and main does not stop by itself.
SpecLfFair == SpecLf /\ WF_vars(NextLf)

-----------------------------------------------------------------------------
(* Runs with the arguments of the documented examples: -t 4 -n 25 with two *)
(* workers, and -t 1 -n 100.                                               *)

Scenarios == {<<4, 25, 2>>} \cup {<<1, 100, n>> : n \in 1 .. MaxWorkers}

InitScenario ==
    /\ variant \in MemoryVariants
    /\ \E s \in Scenarios :
          /\ num_tasks = s[1]
          /\ chunk_size = s[2]
          /\ num_workers = s[3]
    /\ io_failed = FALSE
    /\ InitRun

\* No reserve fails for these ranges, so no worker faults and main never
\* takes the path of a failed run.
NextScenario ==
    \/ Spawn
    \/ \E w \in Workers : GetNextTaskAtomic(w)
    \/ \E w \in Workers : GetNextTaskLocked(w)
    \/ \E w \in Workers : GetNextTaskQueue(w)
    \/ \E w \in Workers : Compute(w)
    \/ \E w \in Workers : Push(w)
    \/ \E w \in Workers : IncCompleted(w)
    \/ \E w \in Workers : IncPrimes(w)
    \/ \E w \in Workers : LoadCompleted(w)
    \/ \E w \in Workers : CheckPeriod(w)
    \/ \E w \in Workers : CheckFinal(w)
    \/ \E w \in Workers : PrintProgress(w)
    \/ \E w \in Workers : Collect(w)
    \/ Join
    \/ OutputResults

SpecScenario == InitScenario /\ [][NextScenario]_vars

-----------------------------------------------------------------------------
(* glm5_libfork's parallelCompute called with any remaining_workers,       *)
(* non-positive values included (main itself passes num_threads >= 1).     *)

InitCompute ==
    /\ variant = "glm5_libfork"
    /\ num_tasks \in 1 .. MaxTasks
    /\ chunk_size \in 1 .. MaxChunk
    /\ num_workers \in (0 - 1) .. MaxWorkers
    /\ io_failed = FALSE
    /\ InitRun

NextCompute ==
    \/ Spawn
    \/ \E w \in Workers : GetNextTaskAtomic(w)
    \/ \E w \in Workers : Compute(w)
    \/ \E w \in Workers : Push(w)
    \/ \E w \in Workers : IncCompleted(w)
    \/ \E w \in Workers : IncPrimes(w)
    \/ \E w \in Workers : LoadCompleted(w)
    \/ \E w \in Workers : PrintProgress(w)
    \/ Join
    \/ Abort
    \/ OutputResults

SpecCompute == InitCompute /\ [][NextCompute]_vars

-----------------------------------------------------------------------------
(* The two batched computations side by side: a range computed by          *)
(* compute_primes_in_range, a task counted by count_primes_on_shard.       *)

InitBatching == InitRange \/ InitBench

NextBatching == NextRange \/ NextBench

SpecBatching == InitBatching /\ [][NextBatching]_vars

-----------------------------------------------------------------------------
(* prime_bench's fork-join count step by step: parallel_prime_count_libfork *)
(* over the task ids start_task .. end_task - 1, as run_libfork_version    *)
(* starts it.  A call is named by its path from the root, as above; its    *)
(* record holds start_task, end_task, the task id it evaluated itself (or  *)
(* -1) and the count it returned.                                          *)

MaxForkTasks == 6

\* Mutant: a range of two tasks is treated as a single task.
SingleTask_UpToTwo(n) == n = 1 \/ n = 2

\* if (num_tasks == 1): only one task, computed directly.
SingleTask(n) == n = 1

NewForkCall(start_task, end_task) ==
    [start |-> start_task, end |-> end_task, state |-> "ready",
     task |-> 0 - 1, count |-> 0]

\* A call starts: num_tasks = end_task - start_task; 0 tasks return 0, one
\* task is counted (start = start_task * chunk_size + 1,
\* end = (start_task + 1) * chunk_size); otherwise mid = start_task +
\* num_tasks / 2, the left half is forked and the right half called.
FjCall(p) ==
    /\ variant = "prime_bench"
    /\ mainpc = "libfork"
    /\ p \in DOMAIN calls
    /\ calls[p].state = "ready"
    /\ LET start_task == calls[p].start
           end_task == calls[p].end
           n == end_task - start_task
           mid == start_task + n \div 2
       IN  IF n = 0
           THEN calls' = [calls EXCEPT ![p] = [@ EXCEPT !.state = "returned"]]
           ELSE IF SingleTask(n)
           THEN calls' = [calls EXCEPT ![p] =
                    [@ EXCEPT !.state = "returned",
                              !.task = start_task,
                              !.count = count_primes_in_range(
                                            start_task * chunk_size + 1,
                                            (start_task + 1) * chunk_size)]]
           ELSE calls' = [q \in DOMAIN calls \cup {Append(p, 0), Append(p, 1)} |->
                    IF q = p THEN [calls[p] EXCEPT !.state = "joining"]
                    ELSE IF q = Append(p, 0) THEN NewForkCall(start_task, mid)
                    ELSE IF q = Append(p, 1) THEN NewForkCall(mid, end_task)
                    ELSE calls[q]]
    /\ UNCHANGED <<rcvars, args, shard, totals, calcvars>>
    /\ UNCHANGED <<variant, num_tasks, chunk_size, num_workers, total_tasks,
                   next_task_id, task_queue, pc, cur, primes, completed,
                   g_results, g_completed_tasks, g_total_primes, progress_log,
                   handed, mainpc, spawned, collected, written, io_failed>>

\* co_await lf::join; co_return left_count + right_count;
FjJoin(p) ==
    /\ variant = "prime_bench"
    /\ p \in DOMAIN calls
    /\ calls[p].state = "joining"
    /\ calls[Append(p, 0)].state = "returned"
    /\ calls[Append(p, 1)].state = "returned"
    /\ calls' = [calls EXCEPT ![p] =
           [@ EXCEPT !.state = "returned",
                     !.count = calls[Append(p, 0)].count + calls[Append(p, 1)].count]]
    /\ UNCHANGED <<rcvars, args, shard, totals, calcvars>>
    /\ UNCHANGED <<variant, num_tasks, chunk_size, num_workers, total_tasks,
                   next_task_id, task_queue, pc, cur, primes, completed,
                   g_results, g_completed_tasks, g_total_primes, progress_log,
                   handed, mainpc, spawned, collected, written, io_failed>>

\* lf::sync_wait returns the root call's count.
FjSyncWait ==
    /\ variant = "prime_bench"
    /\ mainpc = "libfork"
    /\ calls[<<>>].state = "returned"
    /\ totals' = Append(totals, [name |-> "libfork", primes |-> calls[<<>>].count])
    /\ mainpc' = "done"
    /\ UNCHANGED <<rcvars, args, shard, calls, calcvars>>
    /\ UNCHANGED <<variant, num_tasks, chunk_size, num_workers, total_tasks,
                   next_task_id, task_queue, pc, cur, primes, completed,
                   g_results, g_completed_tasks, g_total_primes, progress_log,
                   handed, spawned, collected, written, io_failed>>

\* run_libfork_version(num_tasks, chunk_size, num_threads): the root call
\* parallel_prime_count_libfork(0, num_tasks, chunk_size) handed to the pool.
InitForkJoin ==
    /\ variant = "prime_bench"
    /\ num_tasks \in 0 .. MaxForkTasks
    /\ chunk_size \in 1 .. MaxChunk
    /\ num_workers \in 1 .. MaxWorkers
    /\ total_tasks = num_tasks
    /\ next_task_id = 0
    /\ task_queue = <<>>
    /\ pc = <<>>
    /\ cur = <<>>
    /\ primes = <<>>
    /\ completed = <<>>
    /\ current = <<>>
    /\ since_yield = <<>>
    /\ g_results = <<>>
    /\ g_completed_tasks = 0
    /\ g_total_primes = 0
    /\ progress_log = <<>>
    /\ handed = <<>>
    /\ mainpc = "libfork"
    /\ spawned = 0
    /\ collected = <<>>
    /\ written = <<>>
    /\ io_failed = FALSE
    /\ args = [tasks |-> num_tasks, chunk |-> chunk_size, threads |-> num_workers]
    /\ shard = <<>>
    /\ calls = [p \in {<<>>} |-> NewForkCall(0, num_tasks)]
    /\ totals = <<>>
    /\ alive = TRUE
    /\ monitor = "Unstarted"
    /\ stale = {}

NextForkJoin ==
    \/ \E p \in DOMAIN calls : FjCall(p)
    \/ \E p \in DOMAIN calls : FjJoin(p)
    \/ FjSyncWait

SpecForkJoin == InitForkJoin /\ [][NextForkJoin]_vars

\* The pool runs a call that is ready and sync_wait returns when it can.
SpecForkJoinFair == SpecForkJoin /\ WF_vars(NextForkJoin)

-----------------------------------------------------------------------------
(* prime_calculator: the queue of tasks, the workers, the progress monitor  *)
(* and the lifetime of the TaskQueueManager and the ResultCollector.        *)

\* prime_calculator's MAX_NUMBER (2000000000 in the source), scaled with
\* TASK_CHUNK_SIZE: three tasks, the last one shorter than the others.
MAX_NUMBER == 8

RECURSIVE InitializeLoop_Overlap(_, _, _)
\* Mutant: the next task starts at the end of the previous one.
InitializeLoop_Overlap(current_start, id, acc) ==
    IF current_start > MAX_NUMBER THEN acc
    ELSE LET current_end == IF current_start + TASK_CHUNK_SIZE - 1 < MAX_NUMBER
                            THEN current_start + TASK_CHUNK_SIZE - 1 ELSE MAX_NUMBER
         IN  InitializeLoop_Overlap(IF current_end = MAX_NUMBER THEN current_end + 1
                                    ELSE current_end, id + 1,
                 Append(acc, [task_id |-> id, start |-> current_start,
                              end |-> current_end]))

RECURSIVE InitializeLoop(_, _, _)
\* TaskQueueManager::initialize_tasks:
\* while (current_start <= MAX_NUMBER) {
\*   current_end = std::min(current_start + TASK_CHUNK_SIZE - 1, MAX_NUMBER);
\*   task_queue.push(PrimeTask(current_start, current_end, next_task_id.fetch_add(1)));
\*   task_count++; current_start = current_end + 1; }
InitializeLoop(current_start, id, acc) ==
    IF current_start > MAX_NUMBER THEN acc
    ELSE LET current_end == IF current_start + TASK_CHUNK_SIZE - 1 < MAX_NUMBER
                            THEN current_start + TASK_CHUNK_SIZE - 1 ELSE MAX_NUMBER
         IN  InitializeLoop(current_end + 1, id + 1,
                 Append(acc, [task_id |-> id, start |-> current_start,
                              end |-> current_end]))

\* What no step of prime_calculator changes.
calcfixed == <<variant, num_tasks, chunk_size, num_workers, completed,
               g_total_primes, progress_log, collected, io_failed, rcvars,
               args, benchvars>>

\* A use of the TaskQueueManager or of the ResultCollector by who (the
\* function and the core it runs on): a use after the destruction of the
\* objects is recorded.
Uses(who) == stale' = IF alive THEN stale ELSE stale \cup {who}

\* A use of a destroyed object ends the process (one of the outcomes of the
\* undefined behaviour).
Crashes ==
    /\ ~alive
    /\ mainpc' = "crashed"

\* initialize_tasks runs in the lambda of app.run, on the objects just made.
InitializeTasks ==
    /\ mainpc = "initialize_tasks"
    /\ task_queue' = InitializeLoop(2, next_task_id, <<>>)
    /\ next_task_id' = next_task_id + Len(task_queue')
    /\ total_tasks' = Len(task_queue')
    /\ mainpc' = "initialize_output"
    /\ UNCHANGED <<calcfixed, calcvars, pc, cur, primes, g_results,
                   g_completed_tasks, handed, spawned, written>>

\* The lambda of app.run returns the future of its chain of continuations:
\* its locals task_queue and result_collector (both std::unique_ptr) are
\* destroyed, and with them the TaskQueueManager and the ResultCollector.
\* The continuations that were not run inline, the workers and the monitor
\* go on afterwards.
LambdaReturns ==
    /\ alive
    /\ mainpc \in {"initialize_output", "spawn", "running"}
    /\ alive' = FALSE
    /\ UNCHANGED <<calcfixed, monitor, stale, total_tasks, next_task_id,
                   task_queue, pc, cur, primes, g_results, g_completed_tasks,
                   handed, mainpc, spawned, written>>

\* .then([&result_collector, output_filename] { initialize_output(...) }):
\* the file is opened, or std::runtime_error is thrown and the chain ends
\* in handle_exception.
InitializeOutput ==
    /\ mainpc = "initialize_output"
    /\ Uses(<<"initialize_output", 0>>)
    /\ \/ mainpc' = IF io_failed THEN "failed" ELSE "spawn"
       \/ Crashes
    /\ UNCHANGED <<calcfixed, alive, monitor, total_tasks, next_task_id,
                   task_queue, pc, cur, primes, g_results, g_completed_tasks,
                   handed, spawned, written>>

\* The second continuation: worker_thread is submitted to every core and
\* progress_monitor is started.
StartWorkers ==
    /\ mainpc = "spawn"
    /\ pc' = [w \in Workers |-> "Fetching"]
    /\ spawned' = num_workers
    /\ monitor' = "Sleeping"
    /\ mainpc' = "running"
    /\ UNCHANGED <<calcfixed, alive, stale, total_tasks, next_task_id,
                   task_queue, cur, primes, g_results, g_completed_tasks,
                   handed, written>>

\* worker_thread: task_queue.get_next_task(); no task stops the worker.
\* On a destroyed TaskQueueManager the call may also find the queue empty
\* whatever it held.
CalcGetNextTask(w) ==
    /\ mainpc = "running"
    /\ pc[w] = "Fetching"
    /\ Uses(<<"worker_thread", w>>)
    /\ \/ /\ task_queue = <<>>
          /\ pc' = [pc EXCEPT ![w] = "Finished"]
          /\ UNCHANGED <<task_queue, cur, handed, mainpc>>
       \/ /\ task_queue # <<>>
          /\ task_queue' = Tail(task_queue)
          /\ Take(w, Head(task_queue))
          /\ UNCHANGED mainpc
       \/ /\ ~alive
          /\ task_queue # <<>>
          /\ pc' = [pc EXCEPT ![w] = "Finished"]
          /\ UNCHANGED <<task_queue, cur, handed, mainpc>>
       \/ /\ Crashes
          /\ UNCHANGED <<task_queue, pc, cur, handed>>
    /\ UNCHANGED <<calcfixed, alive, monitor, total_tasks, next_task_id,
                   primes, g_results, g_completed_tasks, spawned, written>>

\* process_task: the primes of the task's range by segmented_sieve.
CalcProcessTask(w) ==
    /\ mainpc = "running"
    /\ pc[w] = "Computing"
    /\ primes' = [primes EXCEPT ![w] = segmented_sieve(cur[w].start, cur[w].end)]
    /\ pc' = [pc EXCEPT ![w] = "Adding"]
    /\ UNCHANGED <<calcfixed, calcvars, total_tasks, next_task_id, task_queue,
                   cur, g_results, g_completed_tasks, handed, mainpc, spawned,
                   written>>

\* The TaskResult of process_task.
CalcResult(w) ==
    [start |-> cur[w].start, end |-> cur[w].end, core_id |-> w, primes |-> primes[w]]

\* ResultCollector::add_result: results.push_back(result) and the line of
\* the CSV file. On a destroyed ResultCollector the result may be lost.
CalcAddResult(w) ==
    /\ mainpc = "running"
    /\ pc[w] = "Adding"
    /\ Uses(<<"worker_thread", w>>)
    /\ \/ /\ g_results' = Append(g_results, CalcResult(w))
          /\ written' = Append(written, Line(CalcResult(w)))
          /\ pc' = [pc EXCEPT ![w] = "Marking"]
          /\ UNCHANGED mainpc
       \/ /\ ~alive
          /\ pc' = [pc EXCEPT ![w] = "Marking"]
          /\ UNCHANGED <<g_results, written, mainpc>>
       \/ /\ Crashes
          /\ UNCHANGED <<g_results, written, pc>>
    /\ UNCHANGED <<calcfixed, alive, monitor, total_tasks, next_task_id,
                   task_queue, cur, primes, g_completed_tasks, handed, spawned>>

\* The continuation of add_result: task_queue.mark_task_completed(), that
\* is completed_tasks.fetch_add(1). On a destroyed TaskQueueManager the
\* increment may be lost.
CalcMarkCompleted(w) ==
    /\ mainpc = "running"
    /\ pc[w] = "Marking"
    /\ Uses(<<"worker_thread", w>>)
    /\ \/ /\ g_completed_tasks' = g_completed_tasks + 1
          /\ pc' = [pc EXCEPT ![w] = "Fetching"]
          /\ UNCHANGED mainpc
       \/ /\ ~alive
          /\ pc' = [pc EXCEPT ![w] = "Fetching"]
          /\ UNCHANGED <<g_completed_tasks, mainpc>>
       \/ /\ Crashes
          /\ UNCHANGED <<g_completed_tasks, pc>>
    /\ UNCHANGED <<calcfixed, alive, monitor, total_tasks, next_task_id,
                   task_queue, cur, primes, g_results, handed, spawned, written>>

\* TaskQueueManager::all_tasks_completed
all_tasks_completed == g_completed_tasks >= total_tasks

\* progress_monitor after seastar::sleep(5s): get_progress,
\* get_remaining_tasks and all_tasks_completed on the TaskQueueManager. The
\* timer fires from the reactor's loop, which runs after the lambda of
\* app.run has returned: the object read is a destroyed one, and the test
\* may give either answer.
MonitorWakes ==
    /\ mainpc = "running"
    /\ monitor = "Sleeping"
    /\ ~alive
    /\ Uses(<<"progress_monitor", 0>>)
    /\ \/ /\ monitor' = IF all_tasks_completed THEN "Stopped" ELSE "Sleeping"
          /\ UNCHANGED mainpc
       \/ /\ monitor' \in {"Stopped", "Sleeping"}
          /\ UNCHANGED mainpc
       \/ /\ Crashes
          /\ UNCHANGED monitor
    /\ UNCHANGED <<calcfixed, alive, total_tasks, next_task_id, task_queue, pc,
                   cur, primes, g_results, g_completed_tasks, handed, spawned,
                   written>>

\* Every worker_thread has stopped: when_all_succeed is resolved.
WorkersFinished == spawned = num_workers /\ \A w \in Workers : pc[w] = "Finished"

\* The last continuation, after when_all_succeed of the workers and then
\* the monitor's future: result_collector->get_statistics().
Statistics ==
    /\ mainpc = "running"
    /\ WorkersFinished
    /\ monitor = "Stopped"
    /\ Uses(<<"statistics", 0>>)
    /\ \/ mainpc' = "done"
       \/ Crashes
    /\ UNCHANGED <<calcfixed, alive, monitor, total_tasks, next_task_id,
                   task_queue, pc, cur, primes, g_results, g_completed_tasks,
                   handed, spawned, written>>

\* The state when the lambda of app.run has made the two objects;
\* num_workers is smp::count.
InitCalc ==
    /\ variant = "prime_calculator"
    /\ num_tasks = 0
    /\ chunk_size = TASK_CHUNK_SIZE
    /\ num_workers \in 1 .. MaxWorkers
    /\ io_failed \in BOOLEAN
    /\ total_tasks = 0
    /\ next_task_id = 0
    /\ task_queue = <<>>
    /\ pc = [w \in Workers |-> "Idle"]
    /\ cur = [w \in Workers |-> NoTask]
    /\ primes = [w \in Workers |-> <<>>]
    /\ completed = [w \in Workers |-> 0]
    /\ g_results = <<>>
    /\ g_completed_tasks = 0
    /\ g_total_primes = 0
    /\ progress_log = <<>>
    /\ handed = <<>>
    /\ mainpc = "initialize_tasks"
    /\ spawned = 0
    /\ collected = <<>>
    /\ written = <<>>
    /\ current = [w \in Workers |-> 0]
    /\ since_yield = [w \in Workers |-> 0]
    /\ args = <<>>
    /\ shard = <<>>
    /\ calls = <<>>
    /\ totals = <<>>
    /\ alive = TRUE
    /\ monitor = "Unstarted"
    /\ stale = {}

NextCalc ==
    \/ InitializeTasks
    \/ LambdaReturns
    \/ InitializeOutput
    \/ StartWorkers
    \/ \E w \in Workers : CalcGetNextTask(w)
    \/ \E w \in Workers : CalcProcessTask(w)
    \/ \E w \in Workers : CalcAddResult(w)
    \/ \E w \in Workers : CalcMarkCompleted(w)
    \/ MonitorWakes
    \/ Statistics

SpecCalc == InitCalc /\ [][NextCalc]_vars

\* The programs that fill a queue by stepping through the interval.
InitQueues == InitStream \/ InitCalc

NextQueues == NextStream \/ NextCalc

SpecQueues == InitQueues /\ [][NextQueues]_vars

-----------------------------------------------------------------------------
(* Definitions the properties share.                                       *)

\* n is a prime number (the mathematical definition, not the program's test).
IsPrimeNumber(n) == n >= 2 /\ \A d \in 2 .. (n - 1) : n % d # 0

Count(seq, x) == Cardinality({i \in DOMAIN seq : seq[i] = x})

IsPermutation(a, b) ==
    /\ Len(a) = Len(b)
    /\ \A i \in DOMAIN a : Count(a, a[i]) = Count(b, a[i])

\* The id of a task handed out (the queue variants number tasks by start).
TaskIdOf(t) == IF variant \in QueueVariants THEN (t.start - 2) \div chunk_size ELSE t.task_id

AllDone == AllSpawned /\ \A w \in Workers : pc[w] = "Done"

OutputStarted == mainpc \in {"output", "done"}

\* How often prime n occurs over the primes fields of the stored results.
Occurrences(n) ==
    Cardinality({p \in UNION {{i} \X DOMAIN g_results[i].primes : i \in DOMAIN g_results} :
                    g_results[p[1]].primes[p[2]] = n})

-----------------------------------------------------------------------------
(* C1..C10.                                                                *)

\* C1: exactly-once task delivery.  In the counter variants (atomic
\* fetch_add, or a counter under a mutex) every id returned as a task lies
\* in 0..total_tasks-1, no id is returned twice, and once every worker has
\* been told Exhausted the ids returned are exactly 0..total_tasks-1.
C1_ExactlyOnce ==
    variant \in CounterVariants \cup LockedVariants =>
        /\ \A i \in DOMAIN handed : handed[i].task_id \in 0 .. (total_tasks - 1)
        /\ \A i, j \in DOMAIN handed : i # j => handed[i].task_id # handed[j].task_id
        /\ AllDone => {handed[i].task_id : i \in DOMAIN handed} = 0 .. (total_tasks - 1)

\* C1 witness: two workers have both been given tasks and all ids are out.
C1_Witness ==
    /\ variant \in CounterVariants \cup LockedVariants
    /\ AllDone
    /\ Len(handed) >= 2
    /\ \E i, j \in DOMAIN g_results : g_results[i].core_id # g_results[j].core_id

\* C2: when the output step runs, the result list holds exactly num_tasks
\* entries and every task id 0..num_tasks-1 is the id of exactly one entry.
C2_NoLostResult ==
    OutputStarted =>
        /\ Len(g_results) = num_tasks
        /\ \A id \in 0 .. (num_tasks - 1) :
              Cardinality({i \in DOMAIN g_results : ResultId(g_results[i]) = id}) = 1

\* C2 witness: the output step has run on results two workers deposited.
C2_Witness ==
    /\ mainpc = "done"
    /\ Len(g_results) >= 2
    /\ \E i, j \in DOMAIN g_results : g_results[i].core_id # g_results[j].core_id

\* C3 (as claimed): the sub-ranges of the tasks handed out in a completed
\* run are contiguous, non-overlapping and cover exactly
\* [2, num_tasks * chunk_size].  Stated for chunk_size >= 2, where no
\* sub-range is inverted (C8), so that what fails is the coverage alone.
C3_PartitionComplete ==
    (AllDone /\ chunk_size >= 2) =>
        /\ UNION {handed[i].start .. handed[i].end : i \in DOMAIN handed}
              = 2 .. (num_tasks * chunk_size)
        /\ \A i, j \in DOMAIN handed :
              i # j => (handed[i].start .. handed[i].end)
                          \cap (handed[j].start .. handed[j].end) = {}

\* C4 (as claimed): at quiescence every prime of [2, num_tasks * chunk_size]
\* occurs in exactly one stored result, and nothing else occurs.  Stated
\* for chunk_size >= 2, where no sub-range is inverted (C8).
C4_AllPrimesFound ==
    (OutputStarted /\ chunk_size >= 2) =>
        /\ \A n \in 2 .. (num_tasks * chunk_size) :
              IsPrimeNumber(n) => Occurrences(n) = 1
        /\ \A i \in DOMAIN g_results : \A k \in DOMAIN g_results[i].primes :
              /\ IsPrimeNumber(g_results[i].primes[k])
              /\ g_results[i].primes[k] \in 2 .. (num_tasks * chunk_size)

\* C5: completedCount never exceeds num_tasks, and equals num_tasks once
\* every worker is Done (when the join returns).
C5_CompletedCount ==
    /\ g_completed_tasks <= num_tasks
    /\ AllDone => g_completed_tasks = num_tasks

\* C5 witness: the join has returned after two workers completed tasks.
C5_Witness ==
    /\ mainpc = "output"
    /\ g_completed_tasks >= 2
    /\ \E i, j \in DOMAIN g_results : g_results[i].core_id # g_results[j].core_id

\* C6: the records written by the output step are in strictly ascending
\* task id and start, one line per result, and the sorted list is a
\* permutation of the list the output step found.
C6_SortedOutput ==
    (mainpc = "done" /\ ~io_failed) =>
        /\ \A i \in 1 .. (Len(g_results) - 1) :
              /\ ResultId(g_results[i]) < ResultId(g_results[i + 1])
              /\ g_results[i].start < g_results[i + 1].start
        /\ Len(written) = Len(g_results)
        /\ \A i \in DOMAIN written : written[i] = Line(g_results[i])
        /\ IsPermutation(g_results, collected)

\* C6 witness: the output was written from a list whose completion order
\* was not the task order.
C6_Witness ==
    /\ mainpc = "done"
    /\ ~io_failed
    /\ Len(written) >= 2
    /\ \E i, j \in DOMAIN collected :
          i < j /\ ResultId(collected[i]) > ResultId(collected[j])

\* C7 (as claimed): the lines written as the tasks complete are in
\* ascending order of task start.
C7_LinesAscending ==
    \A i \in 1 .. (Len(written) - 1) : written[i].start < written[i + 1].start

\* C8 (as claimed): every task handed to a worker has start <= end.
C8_StartLeEnd ==
    \A i \in DOMAIN handed : handed[i].start <= handed[i].end

\* C9: once the sort/output step has started every worker is Done (so none
\* can deposit), and the result list the output step found is the list it
\* ends with, entry for entry up to order.
C9_JoinBeforeOutput ==
    OutputStarted =>
        /\ AllDone
        /\ mainpc = "done" => Len(g_results) = Len(collected)

\* C9 witness: the output step is about to run after two workers deposited.
C9_Witness ==
    /\ mainpc = "output"
    /\ num_workers >= 2
    /\ Len(g_results) >= 2
    /\ \E i, j \in DOMAIN g_results : g_results[i].core_id # g_results[j].core_id

\* C10 (as claimed): a run that can take no further step has completed:
\* the join returned, every worker is Done and every task is recorded.
C10_RunCompletes ==
    (~ENABLED Next) =>
        /\ mainpc = "done"
        /\ AllDone
        /\ Len(g_results) = num_tasks
        /\ g_completed_tasks = num_tasks

-----------------------------------------------------------------------------
(* C11..C20.                                                               *)

\* The state of the worker machine a position of the loop belongs to.
WorkerState(p) == IF p \in ReportingPcs THEN "Reporting" ELSE p

\* The transitions of the worker machine (a step inside Reporting stays
\* in Reporting).
WorkerTransitions ==
    {<<"Idle", "Fetching">>, <<"Fetching", "Computing">>, <<"Fetching", "Done">>,
     <<"Computing", "Reporting">>, <<"Reporting", "Reporting">>,
     <<"Reporting", "Fetching">>}

\* C11: every step of a worker that is not the exit by an exception (the
\* fatal fault of C8/C10, which ends the worker) is one of the transitions
\* Idle -> Fetching -> Computing -> Reporting -> Fetching ... -> Done, and
\* Done is terminal: a worker that was told Exhausted never changes its
\* position again, holds no task, and so never fetches, computes or records.
C11_WorkerMachine ==
    [][\A w \in Workers :
          /\ (pc'[w] # pc[w] /\ pc'[w] # "Faulted") =>
                 <<WorkerState(pc[w]), WorkerState(pc'[w])>> \in WorkerTransitions
          /\ pc'[w] = "Faulted" => pc[w] \in {"Computing", "Faulted"}
          /\ pc[w] = "Done" =>
                 /\ pc'[w] = "Done"
                 /\ cur[w] = NoTask /\ cur'[w] = NoTask
                 /\ Len(g_results') > Len(g_results) =>
                       g_results'[Len(g_results')].core_id # w
                 /\ Len(handed') > Len(handed) =>
                       handed'[Len(handed')] # cur'[w]]_vars

\* C11 witness: worker 0 was told Exhausted after it had recorded a task,
\* while worker 1 is still reporting.
C11_Witness ==
    /\ num_workers = 2
    /\ pc[0] = "Done"
    /\ pc[1] \in ReportingPcs
    /\ \E i \in DOMAIN g_results : g_results[i].core_id = 0

\* One call of the task source by worker w, whichever program runs.
FetchStep(w) == GetNextTaskAtomic(w) \/ GetNextTaskLocked(w) \/ GetNextTaskQueue(w)

\* C12: the task source never blocks and Exhausted is stable.  A worker
\* that is fetching can always complete its call; a call returns a task
\* (with an id below total_tasks) or Exhausted; once all total_tasks ids
\* have been handed out, or once any worker has been told Exhausted, every
\* call returns Exhausted and hands out nothing.
C12_ExhaustedStable ==
    /\ [](\A w \in Workers : (Alive /\ pc[w] = "Fetching") => ENABLED FetchStep(w))
    /\ [][\A w \in Workers :
             (pc[w] = "Fetching" /\ pc'[w] # "Fetching") =>
                 /\ pc'[w] \in {"Computing", "Done"}
                 /\ pc'[w] = "Computing" =>
                        /\ TaskIdOf(cur'[w]) \in 0 .. (total_tasks - 1)
                        /\ handed' = Append(handed, cur'[w])
                 /\ (Len(handed) >= total_tasks \/ \E v \in Workers : pc[v] = "Done") =>
                        (pc'[w] = "Done" /\ handed' = handed)]_vars

\* C12 witness: all ids are out, worker 0 has been told Exhausted and
\* worker 1 is about to call the task source.
C12_Witness ==
    /\ num_workers = 2
    /\ total_tasks >= 2
    /\ Len(handed) = total_tasks
    /\ pc[0] = "Done"
    /\ pc[1] = "Fetching"

\* C13 (as claimed): the result is appended before the counters are
\* incremented, so completedCount never exceeds the number of results
\* stored, and the primes counted are primes of stored results.
C13_AppendBeforeCount ==
    /\ g_completed_tasks <= Len(g_results)
    /\ \A w \in Workers :
          pc[w] \in {"IncCompleted", "IncPrimes"} =>
              \E i \in DOMAIN g_results : g_results[i] = MakeResult(w)

RECURSIVE PrimesOf(_)
\* The number of primes held by the stored results with indexes in S.
PrimesOf(S) ==
    IF S = {} THEN 0
    ELSE LET i == CHOOSE x \in S : TRUE
         IN  Len(g_results[i].primes) + PrimesOf(S \ {i})

\* The pair (c, p) is the count and the prime total of some c stored results.
ConsistentPair(c, p) ==
    \E S \in SUBSET DOMAIN g_results : Cardinality(S) = c /\ PrimesOf(S) = p

\* C14 (as claimed): a pair (completedCount, totalPrimes) that is observed
\* is consistent.  Stated for the pair every printed progress line shows,
\* in the programs that append the result before they count it (so that
\* the order of C13 plays no part).
C14_PrintedPairConsistent ==
    variant # "minimax_seastar" =>
        \A i \in DOMAIN progress_log :
            ConsistentPair(progress_log[i].completed, progress_log[i].primes)


\* C15 (as claimed): a worker that is fetching can be served at once,
\* whatever the other workers are computing.
C15_FetchNeverWaits ==
    \A w \in Workers : (Alive /\ pc[w] = "Fetching") => ENABLED FetchStep(w)


\* C16 (as claimed): in the Seastar programs a worker never tests more
\* than one batch of candidates without yielding, so a sub-range longer
\* than one batch is not computed start-to-end without a yield.
C16_YieldsEveryBatch ==
    variant \in SeastarVariants =>
        \A w \in Workers : since_yield[w] <= BATCH_SIZE


\* A result without the id of the worker that computed it.
WithoutWorker(r) ==
    [task_id |-> ResultId(r), start |-> r.start, end |-> r.end, primes |-> r.primes]

WithoutWorkers(results) == [i \in DOMAIN results |-> WithoutWorker(results[i])]

C18_RangePrimes ==
    \A w \in Workers :
        pc[w] = "Returned" =>
            /\ \A i \in 1 .. (Len(primes[w]) - 1) : primes[w][i] < primes[w][i + 1]
            /\ \A i \in DOMAIN primes[w] :
                  /\ IsPrimeNumber(primes[w][i])
                  /\ primes[w][i] \in cur[w].start .. cur[w].end
            /\ \A n \in cur[w].start .. cur[w].end :
                  IsPrimeNumber(n) => Count(primes[w], n) = 1

\* C18 witness: glm5_seastar has returned from a sub-range of several
\* batches that holds primes and composites of the form 6k+-1.
C18_Witness ==
    /\ variant = "glm5_seastar"
    /\ pc[0] = "Returned"
    /\ cur[0].end - cur[0].start + 1 > 2 * BATCH_SIZE
    /\ Len(primes[0]) >= 2
    /\ \E n \in cur[0].start .. cur[0].end :
          n % 2 # 0 /\ n % 3 # 0 /\ n > 3 /\ ~IsPrimeNumber(n)


\* C19: on every candidate n a range computation has tested, isPrime(n) is
\* defined, is FALSE for n < 2 and otherwise TRUE exactly when n has no
\* divisor d with 1 < d < n; and is_prime_optimized(n) (the loop while
\* i * i <= n) has the same value as isPrime(n).
C19_IsPrimeCorrect ==
    \A w \in Workers :
        \A n \in cur[w].start .. (current[w] - 1) :
            /\ isPrime(n) \in BOOLEAN
            /\ n < 2 => ~isPrime(n)
            /\ n >= 2 => (isPrime(n) <=> \A d \in 2 .. (n - 1) : n % d # 0)
            /\ is_prime_optimized(n) = isPrime(n)
            /\ pc[w] = "Returned" =>
                  (isPrime(n) <=> \E i \in DOMAIN primes[w] : primes[w][i] = n)

\* C19 witness: the candidates tested include 121 = 11 * 11 (found only in
\* the second round of the 6k+-1 loop) and the prime 127.
C19_Witness ==
    /\ pc[0] = "Returned"
    /\ cur[0].start <= 121
    /\ current[0] > 127


\* C20 (as claimed): once the computation of any worker has failed, the
\* run never reaches its output step, nothing is written, and the task
\* that failed is handed to no worker again.
C20_FaultAbortsRun ==
    SomeFaulted =>
        /\ ~OutputStarted
        /\ written = <<>>
        /\ \A i, j \in DOMAIN handed : i # j => handed[i] # handed[j]

-----------------------------------------------------------------------------
(* C21..C30.                                                               *)

\* C21 (as claimed): when the output destination could not be opened, the
\* finished run still holds in memory one complete TaskResult per task,
\* and completedCount counts them all.
C21_ResultsSurviveIoError ==
    (mainpc = "done" /\ io_failed) =>
        /\ Len(g_results) = total_tasks
        /\ \A i \in DOMAIN handed :
              \E k \in DOMAIN g_results :
                  /\ g_results[k].start = handed[i].start
                  /\ g_results[k].end = handed[i].end
                  /\ g_results[k].primes = computePrimesInRange(handed[i].start, handed[i].end)
        /\ g_completed_tasks = total_tasks


\* C23: with num_tasks = 0 every call of the task source returns
\* Exhausted: no task is ever handed out, every started worker goes from
\* Fetching straight to Done, nothing is computed or recorded, the result
\* list and the output stay empty and both counters stay 0.
C23_NoTasks ==
    num_tasks = 0 =>
        /\ handed = <<>>
        /\ \A w \in Workers : pc[w] \in {"Idle", "Fetching", "Done"} /\ cur[w] = NoTask
        /\ g_results = <<>>
        /\ g_completed_tasks = 0
        /\ g_total_primes = 0
        /\ progress_log = <<>>
        /\ written = <<>>
        /\ mainpc # "aborted"

\* C23 witness: a run without tasks has ended, two workers having been
\* started and told Exhausted.
C23_Witness ==
    /\ num_tasks = 0
    /\ num_workers = 2
    /\ AllDone
    /\ next_task_id = 2
    /\ mainpc = "done"


\* C22 (as claimed): when the worker count requested is not positive, the
\* run uses and starts exactly one worker.
C22_NonPositiveWorkersIsOne ==
    (args.threads <= 0 /\ mainpc \in {"validated", "run", "started"}) =>
        /\ num_workers = 1
        /\ spawned <= 1

\* C24 (as claimed): after the validation the run is not given up, the
\* task count, chunk size and worker count it uses are positive, and a
\* value that was not positive has been replaced by its default
\* (20, 100000, 4; sequence_prime documents 1, 100000, 1).
C24_ConfigRecovered ==
    mainpc # "args" =>
        /\ mainpc # "rejected"
        /\ num_tasks > 0 /\ chunk_size > 0 /\ num_workers > 0
        /\ variant # "sequence_prime" =>
              /\ args.tasks <= 0 => num_tasks = DefaultTasks
              /\ args.chunk <= 0 => chunk_size = DefaultChunk
              /\ args.threads <= 0 => num_workers = DefaultThreads

-----------------------------------------------------------------------------
(* C25: when the benchmark has run its implementations (the work-stealing  *)
(* shards reduced by map_reduce, prime_bench's libfork fork-join count,    *)
(* the sequential count of 2 .. num_tasks * chunk_size), the totals it     *)
(* compares are all equal, whatever the shard count and the interleaving.  *)
C25_TotalsConsistent ==
    mainpc = "done" =>
        /\ Len(totals) = (IF variant = "prime_bench" THEN 3 ELSE 2)
        /\ \A i \in DOMAIN totals : totals[i].primes = totals[1].primes

\* prime_bench has compared three totals after both of two shards counted
\* tasks, one of them a task of several batches.
C25_Witness ==
    /\ variant = "prime_bench"
    /\ mainpc = "done"
    /\ num_workers = 2
    /\ \A w \in Workers : shard[w].tasks_completed >= 1
    /\ \E w \in Workers : shard[w].end - shard[w].start >= shard[w].batch_size
    /\ totals[1].primes >= 4

-----------------------------------------------------------------------------
\* The calls of the tree that counted their range themselves.
LeafCalls == {p \in DOMAIN calls : Append(p, 0) \notin DOMAIN calls}

(* C26: in prime_bench_lf, for max_number >= 1 and granularity >= 1, the    *)
(* count of parallel_prime_count(1, max_number, granularity) equals        *)
(* count_primes_in_range(2, max_number) and the count of                   *)
(* sequential_prime_count_original(max_number); every number of            *)
(* 1 .. max_number lies in exactly one leaf range, no leaf range is empty  *)
(* or leaves 1 .. max_number; and the recursion terminates: the run gets   *)
(* to compare the three counts.                                            *)
C26_HalvingConsistent ==
    /\ [](mainpc = "done" =>
            /\ Len(totals) = 3
            /\ totals[1].primes = totals[2].primes
            /\ totals[1].primes = totals[3].primes)
    /\ [](mainpc # "run" =>
            /\ \A n \in 1 .. args.max_number :
                   Cardinality({p \in LeafCalls :
                                   calls[p].start <= n /\ n <= calls[p].end}) = 1
            /\ \A p \in LeafCalls :
                   /\ 1 <= calls[p].start
                   /\ calls[p].start <= calls[p].end
                   /\ calls[p].end <= args.max_number)
    /\ <>(mainpc = "done")

\* A run that split its range at two levels has compared its three counts.
C26_Witness ==
    /\ variant = "prime_bench_lf"
    /\ mainpc = "done"
    /\ <<0, 1>> \in DOMAIN calls
    /\ <<1, 0>> \in DOMAIN calls
    /\ totals[1].primes >= 4

-----------------------------------------------------------------------------
\* The task ranges of the run -t 4 -n 25, by task id.
FourRanges == <<[start |-> 2, end |-> 25], [start |-> 27, end |-> 50],
                [start |-> 52, end |-> 75], [start |-> 77, end |-> 100]>>

(* C27: with totalTasks = 4, chunkSize = 25 and numWorkers = 2, the task    *)
(* with id i has the range [2,25], [27,50], [52,75], [77,100] for          *)
(* i = 0, 1, 2, 3; and once every worker is Done there are four results,   *)
(* their primes number 25 in total, and the totalPrimes counter is 25.     *)
C27_FourTasksOf25 ==
    (num_tasks = 4 /\ chunk_size = 25 /\ num_workers = 2) =>
        /\ \A w \in Workers : cur[w] # NoTask =>
               /\ TaskIdOf(cur[w]) \in 0 .. 3
               /\ cur[w].start = FourRanges[TaskIdOf(cur[w]) + 1].start
               /\ cur[w].end = FourRanges[TaskIdOf(cur[w]) + 1].end
        /\ \A i \in DOMAIN g_results :
               /\ ResultId(g_results[i]) \in 0 .. 3
               /\ g_results[i].start = FourRanges[ResultId(g_results[i]) + 1].start
               /\ g_results[i].end = FourRanges[ResultId(g_results[i]) + 1].end
        /\ AllDone =>
               /\ Len(g_results) = 4
               /\ \A i, j \in DOMAIN g_results :
                      i # j => ResultId(g_results[i]) # ResultId(g_results[j])
               /\ PrimesOf(DOMAIN g_results) = 25
               /\ g_total_primes = 25

\* The run of four tasks of 25 has ended, both workers having stored results.
C27_Witness ==
    /\ num_tasks = 4
    /\ chunk_size = 25
    /\ num_workers = 2
    /\ mainpc = "done"
    /\ Len(g_results) = 4
    /\ \E i, j \in DOMAIN g_results : g_results[i].core_id # g_results[j].core_id

-----------------------------------------------------------------------------
\* The primes of 2 .. 100 in ascending order.
PrimesTo100 == <<2, 3, 5, 7, 11, 13, 17, 19, 23, 29, 31, 37, 41, 43, 47, 53,
                 59, 61, 67, 71, 73, 79, 83, 89, 97>>

(* C28: with totalTasks = 1 and chunkSize = 100 a result that is stored is *)
(* the result of the range [2,100] and holds exactly the 25 primes         *)
(* 2, 3, 5, .., 89, 97 in ascending order; when the run ends there is one  *)
(* result and completedCount is 1.                                         *)
C28_OneTaskOf100 ==
    (num_tasks = 1 /\ chunk_size = 100) =>
        /\ \A i \in DOMAIN g_results :
               /\ g_results[i].start = 2
               /\ g_results[i].end = 100
               /\ g_results[i].primes = PrimesTo100
        /\ AllDone =>
               /\ Len(g_results) = 1
               /\ g_completed_tasks = 1

\* The run of one task of 100 has ended with two workers started.
C28_Witness ==
    /\ num_tasks = 1
    /\ chunk_size = 100
    /\ num_workers = 2
    /\ mainpc = "done"
    /\ Len(g_results) = 1
    /\ Len(g_results[1].primes) = 25
    /\ g_completed_tasks = 1

-----------------------------------------------------------------------------
\* Worker w holds a task it has claimed whose result is not stored yet.
InFlight(w) ==
    /\ cur[w] # NoTask
    /\ \A i \in DOMAIN g_results : ResultId(g_results[i]) # TaskIdOf(cur[w])

(* C29: the tasks claimed from the source and not yet recorded are the     *)
(* tasks the workers hold, one per worker at most: in every state the      *)
(* number of tasks claimed minus the number of results recorded is the     *)
(* number of workers holding an unrecorded task, hence between 0 and       *)
(* numWorkers.                                                             *)
C29_OneTaskInFlight ==
    /\ Len(handed) - Len(g_results) = Cardinality({w \in Workers : InFlight(w)})
    /\ Len(handed) - Len(g_results) \in 0 .. num_workers

\* Both of two workers hold a task in flight after a result was recorded.
C29_Witness ==
    /\ num_workers = 2
    /\ Len(g_results) >= 1
    /\ Len(handed) - Len(g_results) = 2
    /\ \A w \in Workers : InFlight(w)

-----------------------------------------------------------------------------
(* C30: when every worker is Done, the totalPrimes counter equals the sum  *)
(* of the lengths of the primes of the stored results: every result        *)
(* recorded has added its own number of primes once, however the workers'  *)
(* separate updates of the list and of the counters interleave.            *)
C30_TotalIsSumOfResults ==
    AllDone => g_total_primes = PrimesOf(DOMAIN g_results)

\* Every worker is Done after two workers recorded results holding primes.
C30_Witness ==
    /\ AllDone
    /\ num_workers = 2
    /\ \E i, j \in DOMAIN g_results :
          /\ g_results[i].core_id # g_results[j].core_id
          /\ Len(g_results[i].primes) >= 1
          /\ Len(g_results[j].primes) >= 1
    /\ g_total_primes >= 3

-----------------------------------------------------------------------------
\* The progress lines printed for completed == totalTasks.
FinalReports == {i \in DOMAIN progress_log : progress_log[i].completed = ProgressTotal}

(* C36 (as claimed): the final progress report, the line printed when      *)
(* completed == totalTasks, is printed at most once in a run, and exactly  *)
(* once when every worker is Done after at least one task.                 *)
C36_FinalReportOnce ==
    /\ Cardinality(FinalReports) <= 1
    /\ (AllDone /\ num_tasks >= 1) => Cardinality(FinalReports) = 1

-----------------------------------------------------------------------------
\* The workers parallelCompute has started so far.
Started == {w \in Workers : pc[w] # "Idle"}

(* C34: parallelCompute(N) starts workers with pairwise distinct ids of    *)
(* 0 .. N-1 (as many distinct ids as starts); when it has returned,        *)
(* normally or with a worker's exception, it has started exactly N workers *)
(* if N >= 1 and every one of them has finished; with N <= 0 it starts no  *)
(* worker at all.                                                          *)
C34_ParallelCompute ==
    /\ Cardinality(Started) = spawned
    /\ Started \subseteq 0 .. (num_workers - 1)
    /\ num_workers <= 0 => spawned = 0
    /\ mainpc # "run" =>
           /\ num_workers >= 1 => Started = 0 .. (num_workers - 1)
           /\ \A w \in Workers : pc[w] \in {"Done", "Faulted"}

\* parallelCompute(2) has returned after both workers recorded a result.
C34_Witness ==
    /\ variant = "glm5_libfork"
    /\ num_workers = 2
    /\ spawned = 2
    /\ mainpc = "done"
    /\ \E i, j \in DOMAIN g_results : g_results[i].core_id # g_results[j].core_id

-----------------------------------------------------------------------------
\* The workers that hold a task taken from the queue and not yet collected.
Holding == {w \in Workers : cur[w] # NoTask}

(* C39: in glm5_seastar, whose queue and result sink are touched only by   *)
(* steps run on core 0, every state satisfies: completed_tasks is the      *)
(* number of results, total_primes is the sum of the lengths of their      *)
(* primes, and the tasks queued, completed and held by workers add up to   *)
(* total_tasks.                                                            *)
C39_Core0Accounting ==
    variant = "glm5_seastar" =>
        /\ g_completed_tasks = Len(g_results)
        /\ g_total_primes = PrimesOf(DOMAIN g_results)
        /\ Len(task_queue) + g_completed_tasks + Cardinality(Holding) = total_tasks

\* glm5_seastar with a task queued, a task collected and a task held.
C39_Witness ==
    /\ variant = "glm5_seastar"
    /\ Len(task_queue) >= 1
    /\ g_completed_tasks >= 1
    /\ g_total_primes >= 1
    /\ Cardinality(Holding) = 1
    /\ num_workers = 2

-----------------------------------------------------------------------------
(* C40 (as claimed): with the atomic-counter task source the counter never *)
(* exceeds totalTasks + numWorkers, and when the run has ended (the join   *)
(* has returned, normally or not) it equals totalTasks + numWorkers, every *)
(* worker having made exactly one fetch that found the source exhausted.   *)
C40_CounterOvershoot ==
    variant \in CounterVariants =>
        /\ next_task_id <= total_tasks + num_workers
        /\ mainpc # "run" => next_task_id = total_tasks + num_workers

-----------------------------------------------------------------------------
(* C35: batching a task's range does not change the result.  In            *)
(* glm5_seastar the batches follow one another without gap or overlap:     *)
(* at every point the primes collected are those of start .. current - 1,  *)
(* and current is end + 1 when the computation returns.  In prime_bench    *)
(* and test_simple the batch counts added up so far are the count of the   *)
(* part of the task's range the batches have covered, hence the count of   *)
(* the whole range when the batch loop is over, for both batch sizes.      *)
C35_BatchingPreservesResult ==
    /\ variant = "glm5_seastar" =>
           \A w \in Workers :
              /\ cur[w].start <= current[w]
              /\ current[w] <= cur[w].end + 1
              /\ primes[w] = computePrimesInRange(cur[w].start, current[w] - 1)
              /\ pc[w] = "Returned" =>
                     /\ current[w] = cur[w].end + 1
                     /\ primes[w] = computePrimesInRange(cur[w].start, cur[w].end)
    /\ variant \in BenchVariants =>
           \A w \in Workers : pc[w] = "Counting" =>
              LET s == shard[w]
                  covered == IF s.batch_start - 1 < s.end THEN s.batch_start - 1 ELSE s.end
              IN  /\ s.batch_primes = count_primes_in_range(s.start, covered)
                  /\ s.batch_start > s.end =>
                         s.batch_primes = count_primes_in_range(s.start, s.end)

\* A shard has counted a task in several batches of the larger size.
C35_Witness ==
    /\ variant \in BenchVariants
    /\ \E w \in Workers :
          /\ pc[w] = "Counting"
          /\ shard[w].batch_size = 2 * BATCH_SIZE
          /\ shard[w].batch_start > shard[w].end
          /\ shard[w].end - shard[w].start >= shard[w].batch_size
          /\ shard[w].batch_primes >= 1

-----------------------------------------------------------------------------
\* The calls that evaluated task id themselves.
LeavesOf(id) == {p \in DOMAIN calls : calls[p].task = id}

\* Call p has been split into two halves.
IsSplit(p) == Append(p, 0) \in DOMAIN calls

(* C32: the fork-join count delivers each task exactly once.  No task id   *)
(* is ever evaluated by two calls and only ids of start_task ..            *)
(* end_task - 1 are evaluated; a call that was split has returned only if  *)
(* both its halves have returned, and with the sum of their counts; when   *)
(* the root has returned every id has been evaluated by exactly one call;  *)
(* and the recursion terminates: every run reaches the return of           *)
(* sync_wait.                                                              *)
C32_ForkJoinExactlyOnce ==
    /\ [](/\ \A id \in 0 .. (num_tasks - 1) : Cardinality(LeavesOf(id)) <= 1
          /\ \A p \in DOMAIN calls : calls[p].task \in (0 - 1) .. (num_tasks - 1)
          /\ \A p \in DOMAIN calls :
                (IsSplit(p) /\ calls[p].state = "returned") =>
                    /\ calls[Append(p, 0)].state = "returned"
                    /\ calls[Append(p, 1)].state = "returned"
                    /\ calls[p].count = calls[Append(p, 0)].count
                                        + calls[Append(p, 1)].count
          /\ calls[<<>>].state = "returned" =>
                \A id \in 0 .. (num_tasks - 1) : Cardinality(LeavesOf(id)) = 1)
    /\ <>(mainpc = "done")

\* The count over five tasks has returned after two levels of splitting.
C32_Witness ==
    /\ variant = "prime_bench"
    /\ mainpc = "done"
    /\ num_tasks = 5
    /\ <<1, 1>> \in DOMAIN calls
    /\ totals[1].primes >= 1

-----------------------------------------------------------------------------
\* The segments low .. high the sieve path cuts start .. end into.
SegmentsOf(start, end) ==
    {<<low, IF low + TASK_CHUNK_SIZE - 1 < end THEN low + TASK_CHUNK_SIZE - 1 ELSE end>> :
        low \in {n \in start .. end : (n - start) % TASK_CHUNK_SIZE = 0}}

(* C33: segmented_sieve(start, end) returns exactly the primes of          *)
(* start .. end in strictly ascending order, on the trial-division path    *)
(* (end - start <= TASK_CHUNK_SIZE) and on the sieve path; on the sieve    *)
(* path no prime of a segment is struck, a small prime inside the range    *)
(* included, and the sequence returned is that of trial division over the  *)
(* same range.                                                             *)
C33_SegmentedSieve ==
    variant = "prime_calculator" =>
        \A w \in Workers :
            LET start == cur[w].start
                end == cur[w].end
            IN  /\ pc[w] = "Returned" =>
                       /\ \A i \in DOMAIN primes[w] :
                              /\ IsPrimeNumber(primes[w][i])
                              /\ primes[w][i] \in start .. end
                              /\ i > 1 => primes[w][i - 1] < primes[w][i]
                       /\ \A n \in start .. end :
                              IsPrimeNumber(n) => \E i \in DOMAIN primes[w] : primes[w][i] = n
                /\ end - start > TASK_CHUNK_SIZE =>
                       /\ SievePath(start, end) = SieveLoop(start, end, <<>>)
                       /\ \A sg \in SegmentsOf(start, end) :
                              \A n \in sg[1] .. sg[2] :
                                 IsPrimeNumber(n) =>
                                    StruckSegment(sg[1], sg[2], SmallPrimes(end))[n - sg[1]]

\* The sieve path has returned the primes of a range of several segments
\* that holds a small prime of the sieve.
C33_Witness ==
    /\ variant = "prime_calculator"
    /\ \E w \in Workers :
          /\ pc[w] = "Returned"
          /\ cur[w].end - cur[w].start > 2 * TASK_CHUNK_SIZE
          /\ cur[w].start <= 3
          /\ Len(primes[w]) >= 3

-----------------------------------------------------------------------------
(* C37: in prime_calculator the TaskQueueManager and the ResultCollector   *)
(* outlive every worker, the progress monitor and every continuation of    *)
(* the run: none of them uses either object after its destruction.         *)
C37_ObjectsOutliveUsers ==
    variant = "prime_calculator" => stale = {}

-----------------------------------------------------------------------------
\* The tasks marked completed never outnumber the results stored.
CompletedWithinResults == g_completed_tasks <= Len(g_results)

\* Once every worker has finished, every task is marked completed.
FinishedMeansCompleted == WorkersFinished => g_completed_tasks = total_tasks

\* A wake-up of the monitor after every worker has finished stops it.
MonitorStopsAtWakeUp == MonitorWakes /\ WorkersFinished => monitor' = "Stopped"

\* The statistics stage has run only after the workers and the monitor.
StatisticsLast == mainpc = "done" => WorkersFinished /\ monitor = "Stopped"

(* C38: in prime_calculator a task is marked completed only after its      *)
(* result was added, so completed_tasks never exceeds the number of        *)
(* stored results; once every worker has finished completed_tasks equals   *)
(* total_tasks and the progress monitor stops at its next wake-up; the     *)
(* statistics stage runs only after the workers and the monitor finished.  *)
C38_CompletionOrder ==
    /\ [](variant = "prime_calculator" =>
             /\ CompletedWithinResults
             /\ FinishedMeansCompleted
             /\ StatisticsLast)
    /\ [][variant = "prime_calculator" => MonitorStopsAtWakeUp]_vars

-----------------------------------------------------------------------------
\* The queue as it was filled: the tasks handed out so far, then those
\* still queued.
QueueAsFilled == handed \o task_queue

\* The upper end of the interval the queue is filled from.
QueueMaxNum == IF variant = "prime_calculator" THEN MAX_NUMBER ELSE num_tasks * chunk_size

(* C31: the queue filled by stepping through the interval (pony_alpha      *)
(* init_task_queue, prime_calculator initialize_tasks) holds contiguous    *)
(* tasks: the first starts at 2, each next one starts at the previous      *)
(* end + 1, every task has start <= end and spans at most chunk_size       *)
(* numbers, the last one ends at max_num, and total_tasks is the number of *)
(* tasks queued.                                                           *)
C31_QueueContiguous ==
    (/\ variant \in {"pony_alpha", "prime_calculator"}
     /\ alive
     /\ mainpc # "initialize_tasks") =>
        LET q == QueueAsFilled
        IN  /\ total_tasks = Len(q)
            /\ q # <<>> => q[1].start = 2 /\ q[Len(q)].end = QueueMaxNum
            /\ \A i \in DOMAIN q :
                  /\ q[i].start <= q[i].end
                  /\ q[i].end - q[i].start + 1 <= chunk_size
                  /\ i > 1 => q[i].start = q[i - 1].end + 1

\* initialize_tasks has queued several tasks, the last one shorter than
\* chunk_size, and a worker has taken the first of them.
C31_Witness ==
    /\ variant = "prime_calculator"
    /\ alive
    /\ Len(handed) = 1
    /\ Len(task_queue) >= 2
    /\ task_queue[Len(task_queue)].end - task_queue[Len(task_queue)].start + 1 < chunk_size

====
